---- MODULE Spec2Model ----
(***************************************************************************)
(* Model of the ghl tree family: the parent-linked binary node             *)
(* (fixed_branch_size_tree<T,2>), the height-augmented node                 *)
(* (binary_tree_with_height), the binary_search_tree engine and the         *)
(* avl_tree layer.                                                          *)
(*                                                                          *)
(* The heap is a function from node addresses to node records; address 0    *)
(* is nullptr.  A call is one action: the whole handler runs to its return  *)
(* (or to the fault that ends the process).  Operators that model code      *)
(* take the machine state m (heap, root slot, fault flag, rotation count,   *)
(* returned value) and give the machine state after the code ran.           *)
(***************************************************************************)
EXTENDS Integers, Sequences, FiniteSets, TLC, Bags

\* ------------------------------------------------------------------ bounds
\* values offered to the general specification (all three layers)
MaxVal == 2
\* nodes that may hold the same value at the same time (address copies)
MaxDup == 2
\* live nodes allowed in the general specification
MaxNodes == 4
\* values offered to the AVL-only specification with pairwise distinct values
AvlVals == 9
\* values offered to the insert-only AVL specification
InsVals == 4
\* live nodes allowed in the insert-only AVL specification
InsNodes == 6
\* values offered to the specification of all layers with pairwise distinct values
MaxKey == 6
\* values offered to the priority queue
PqVals == 3
\* elements the priority queue may hold
PqLen == 4
\* values offered to the heap
HeapVals == 3
\* elements the heap may hold
HeapLen == 5
\* values offered to the set that is only added to
AddVals == 4
\* values offered to the set under all its modifying calls
SetVals == 4
\* addresses (and so nodes) of the specification of the node functions
NodeNodes == 3
\* values offered to the specification of the scenario
ScrVals == 7
\* values offered to the specification of the queries and the iterator
IterVals == 2
\* live nodes allowed in the specification of the queries and the iterator
IterNodes == 4

NULL == 0

Layers == {"bst", "bsth", "avl"}

VARIABLES
    layer,   \* which instantiation runs: binary_search_tree<T,binary_tree>,
             \* binary_search_tree<T,binary_tree_with_height>, avl_tree<T>
    nd,      \* the heap: address -> node record
    root,    \* binary_search_tree::root (owning slot)
    fault,   \* "none", or the undefined behaviour that ended the process
    last,    \* the call that produced this state and what it returned
    num_eles, \* tree_set::num_eles (0 while the tree is used without a set)
    script,  \* calls of Scenario made so far, Off once the calls made differ from it
    data,    \* max_heap_lw::data, the vector of the heap
    lst      \* priority_queue::lst, the list of the queue

vars == <<layer, nd, root, fault, last, num_eles, script, data, lst>>

\* the addresses of the heap; Addr(v, k) is the address the k-th node
\* allocated for value v gets
Ids == DOMAIN nd
Addr(v, k) == MaxDup * (v - 1) + k

\* a freed (or never allocated) address
FreeNode == [val |-> 0, left |-> NULL, right |-> NULL, p |-> NULL, height |-> 0, live |-> FALSE]

\* the node type carries the height attribute
HasHeight == layer \in {"bsth", "avl"}

\* machine state handed from one statement to the next
Mach(n, r) == [nd |-> n, root |-> r, fault |-> "none", rot |-> 0, res |-> NULL]

\* the process ends in undefined behaviour; later statements do not run
Fault(m, what) == IF m.fault = "none" THEN [m EXCEPT !.fault = what] ELSE m

\* the value a function returns
with_res(m, r) == [m EXCEPT !.res = r]

\* ------------------------------------------------------- tree<T> / node
object_valid(m, n) == m.nd[n].val # 0

RECURSIVE empty(_, _)
left_empty(m, n) == IF m.nd[n].left = NULL THEN TRUE ELSE empty(m, m.nd[n].left)
right_empty(m, n) == IF m.nd[n].right = NULL THEN TRUE ELSE empty(m, m.nd[n].right)
empty(m, n) == left_empty(m, n) /\ right_empty(m, n) /\ ~object_valid(m, n)

has_left(m, n) == m.nd[n].left # NULL
has_right(m, n) == m.nd[n].right # NULL
has_parent(m, n) == m.nd[n].p # NULL

\* std::unique_ptr deleter: the node and everything its slots still own
RECURSIVE destroy(_, _)
destroy(m, n) ==
    IF n = NULL \/ ~m.nd[n].live THEN m
    ELSE [destroy(destroy(m, m.nd[n].right), m.nd[n].left) EXCEPT !.nd[n] = FreeNode]

\* release_left that leaves the released node pointing at the parent it had
base_release_left_keeps_parent(m, t) ==
    IF m.nd[t].left = NULL THEN m
    ELSE [m EXCEPT !.nd[t].left = NULL]

\* fixed_branch_size_tree<T,2>::release_left (the released node is m.nd[t].left before the call)
base_release_left(m, t) ==
    IF m.nd[t].left = NULL THEN m
    ELSE [m EXCEPT !.nd[t].left = NULL, !.nd[m.nd[t].left].p = NULL]

base_release_right(m, t) ==
    IF m.nd[t].right = NULL THEN m
    ELSE [m EXCEPT !.nd[t].right = NULL, !.nd[m.nd[t].right].p = NULL]

\* set_left that forgets to rebind the incoming node's parent reference
base_set_left_no_rebind(m, t, n) ==
    destroy([m EXCEPT !.nd[t].left = n], m.nd[t].left)

\* fixed_branch_size_tree<T,2>::set_left: rebind n's parent, take n, delete the old branch
base_set_left(m, t, n) ==
    IF n # NULL
    THEN destroy([m EXCEPT !.nd[n].p = t, !.nd[t].left = n], m.nd[t].left)
    ELSE destroy([m EXCEPT !.nd[t].left = n], m.nd[t].left)

\* set_right that lets go of the branch it held instead of deleting it
base_set_right_no_delete(m, t, n) ==
    IF n # NULL
    THEN [m EXCEPT !.nd[n].p = t, !.nd[t].right = n]
    ELSE [m EXCEPT !.nd[t].right = n]

base_set_right(m, t, n) ==
    IF n # NULL
    THEN destroy([m EXCEPT !.nd[n].p = t, !.nd[t].right = n], m.nd[t].right)
    ELSE destroy([m EXCEPT !.nd[t].right = n], m.nd[t].right)

\* ------------------------------------------- binary_tree_with_height
Max2(a, b) == IF a >= b THEN a ELSE b

update_height(m, x) ==
    [m EXCEPT !.nd[x].height =
        IF left_empty(m, x)
        THEN 1 + (IF right_empty(m, x) THEN 0 ELSE m.nd[m.nd[x].right].height)
        ELSE IF right_empty(m, x) THEN 1 + m.nd[m.nd[x].left].height
        ELSE 1 + Max2(m.nd[m.nd[x].right].height, m.nd[m.nd[x].left].height)]

\* the loop of update_height_on_path: x, then every node above it
RECURSIVE update_height_up(_, _)
update_height_up(m, x) ==
    IF m.nd[x].p = NULL THEN update_height(m, x)
    ELSE update_height_up(update_height(m, x), m.nd[x].p)

update_height_on_path(m, path_end) ==
    IF path_end = NULL THEN m ELSE update_height_up(m, path_end)

\* the virtual set_left/set_right and the hiding release_left/release_right,
\* dispatched on the node type of the layer; after the base set_left(n) the
\* branch this->left() is n
set_left(m, t, n) ==
    IF m.fault # "none" THEN m
    ELSE IF HasHeight THEN update_height_on_path(base_set_left(m, t, n), n)
    ELSE base_set_left(m, t, n)

set_right(m, t, n) ==
    IF m.fault # "none" THEN m
    ELSE IF HasHeight THEN update_height_on_path(base_set_right(m, t, n), n)
    ELSE base_set_right(m, t, n)

release_left(m, t) ==
    IF m.fault # "none" THEN m
    ELSE IF HasHeight THEN update_height_on_path(base_release_left(m, t), t)
    ELSE base_release_left(m, t)

release_right(m, t) ==
    IF m.fault # "none" THEN m
    ELSE IF HasHeight THEN update_height_on_path(base_release_right(m, t), t)
    ELSE base_release_right(m, t)

\* fixed_branch_size_tree<T,2>::reset_left / reset_right: branches[i].reset()
base_reset_left(m, t) == destroy([m EXCEPT !.nd[t].left = NULL], m.nd[t].left)

base_reset_right(m, t) == destroy([m EXCEPT !.nd[t].right = NULL], m.nd[t].right)

\* the virtual reset_left/reset_right: the height node then updates from itself up
reset_left(m, t) ==
    IF m.fault # "none" THEN m
    ELSE IF HasHeight THEN update_height_on_path(base_reset_left(m, t), t)
    ELSE base_reset_left(m, t)

reset_right(m, t) ==
    IF m.fault # "none" THEN m
    ELSE IF HasHeight THEN update_height_on_path(base_reset_right(m, t), t)
    ELSE base_reset_right(m, t)

\* new Container<T>(ele, parent): a fresh address for the value, no branches,
\* the parent reference given; the height node computes its height and that
\* of the nodes above the given parent
FreeCopies(m, v) == {k \in 1..MaxDup : ~m.nd[Addr(v, k)].live}
CanAlloc(m, v) == FreeCopies(m, v) # {}
NewId(m, v) == Addr(v, CHOOSE k \in FreeCopies(m, v) : \A j \in FreeCopies(m, v) : k <= j)

new_node(m, id, v, parent) ==
    IF HasHeight
    THEN update_height_on_path(
             [m EXCEPT !.nd[id] = [val |-> v, left |-> NULL, right |-> NULL, p |-> parent,
                                   height |-> 0, live |-> TRUE]], id)
    ELSE [m EXCEPT !.nd[id] = [val |-> v, left |-> NULL, right |-> NULL, p |-> parent,
                               height |-> 0, live |-> TRUE]]

\* ------------------------------------------------ binary_search_tree
\* root.reset(n): the root slot takes n and deletes what it held
root_reset(m, n) ==
    IF m.fault # "none" THEN m ELSE destroy([m EXCEPT !.root = n], m.root)

\* the walk of insert with the comparison turned round
RECURSIVE insert_walk_reversed(_, _, _, _)
insert_walk_reversed(m, ele, x, y) ==
    IF x = NULL THEN y
    ELSE IF ele >= m.nd[x].val
         THEN insert_walk_reversed(m, ele, m.nd[x].left, x)
         ELSE insert_walk_reversed(m, ele, m.nd[x].right, x)

\* the walk of insert: the last non-null node visited
RECURSIVE insert_walk(_, _, _, _)
insert_walk(m, ele, x, y) ==
    IF x = NULL THEN y
    ELSE IF ele <= m.nd[x].val
         THEN insert_walk(m, ele, m.nd[x].left, x)
         ELSE insert_walk(m, ele, m.nd[x].right, x)

\* insert_attach that attaches a node whatever bAllowDuplication says
insert_attach_ignores_flag(m, ele, bAllowDuplication, y, id) ==
    IF y = NULL
    THEN with_res(root_reset(new_node(m, id, ele, NULL), id), id)
    ELSE IF ele <= m.nd[y].val
         THEN with_res(set_left(new_node(m, id, ele, y), y, id), id)
         ELSE with_res(set_right(new_node(m, id, ele, y), y, id), id)

\* insert_attach that puts an equal value on the right when duplicates are
\* allowed
insert_attach_equal_right(m, ele, bAllowDuplication, y, id) ==
    IF y = NULL
    THEN with_res(root_reset(new_node(m, id, ele, NULL), id), id)
    ELSE IF bAllowDuplication \/ ele # m.nd[y].val
         THEN IF ele < m.nd[y].val
              THEN with_res(set_left(new_node(m, id, ele, y), y, id), id)
              ELSE with_res(set_right(new_node(m, id, ele, y), y, id), id)
         ELSE with_res(m, NULL)

\* the second half of insert: y is where the walk ended, id the address of
\* the node a new Container<T> gets
insert_attach(m, ele, bAllowDuplication, y, id) ==
    IF y = NULL
    THEN with_res(root_reset(new_node(m, id, ele, NULL), id), id)
    ELSE IF bAllowDuplication
         THEN IF ele <= m.nd[y].val
              THEN with_res(set_left(new_node(m, id, ele, y), y, id), id)
              ELSE with_res(set_right(new_node(m, id, ele, y), y, id), id)
         ELSE IF ele < m.nd[y].val
              THEN with_res(set_left(new_node(m, id, ele, y), y, id), id)
              ELSE IF ele > m.nd[y].val
                   THEN with_res(set_right(new_node(m, id, ele, y), y, id), id)
                   ELSE with_res(m, NULL)

\* binary_search_tree::insert; m.res is the node of the returned iterator
bst_insert(m, ele, bAllowDuplication) ==
    insert_attach(m, ele, bAllowDuplication, insert_walk(m, ele, m.root, NULL), NewId(m, ele))

\* iterator::valid
valid(m, n) == IF n # NULL THEN ~empty(m, n) ELSE FALSE

\* internal_find that descends to the wrong side
RECURSIVE internal_find_wrong_side(_, _, _)
internal_find_wrong_side(m, node, ele) ==
    IF node # NULL /\ object_valid(m, node)
    THEN IF m.nd[node].val = ele THEN node
         ELSE IF ele <= m.nd[node].val
              THEN internal_find_wrong_side(m, m.nd[node].right, ele)
              ELSE internal_find_wrong_side(m, m.nd[node].left, ele)
    ELSE node

\* internal_find that never descends to the right
RECURSIVE internal_find_left_only(_, _, _)
internal_find_left_only(m, node, ele) ==
    IF node # NULL /\ object_valid(m, node)
    THEN IF m.nd[node].val = ele THEN node
         ELSE internal_find_left_only(m, m.nd[node].left, ele)
    ELSE node

\* binary_search_tree::internal_find(node, ele)
RECURSIVE internal_find(_, _, _)
internal_find(m, node, ele) ==
    IF node # NULL /\ object_valid(m, node)
    THEN IF m.nd[node].val = ele THEN node
         ELSE IF ele <= m.nd[node].val
              THEN internal_find(m, m.nd[node].left, ele)
              ELSE internal_find(m, m.nd[node].right, ele)
    ELSE node

\* binary_search_tree::find(ele): the node of the returned iterator
find(m, ele) == internal_find(m, m.root, ele)

RECURSIVE internal_maximum(_, _)
internal_maximum(m, node) ==
    IF m.nd[node].right # NULL THEN internal_maximum(m, m.nd[node].right) ELSE node

RECURSIVE internal_minimum(_, _)
internal_minimum(m, node) ==
    IF m.nd[node].left # NULL THEN internal_minimum(m, m.nd[node].left) ELSE node

\* the second half of transplant, v released: rebind v's parent and put v
\* in the slot of u
transplant_attach(m, v, up, b_u_left_right) ==
    IF m.fault # "none" THEN m
    ELSE IF v = NULL THEN Fault(m, "null_deref")
    ELSE IF up = NULL THEN root_reset([m EXCEPT !.nd[v].p = up], v)
    ELSE IF b_u_left_right THEN set_left([m EXCEPT !.nd[v].p = up], up, v)
    ELSE set_right([m EXCEPT !.nd[v].p = up], up, v)

\* transplant that does not release v from its previous parent first
transplant_no_release(m, u, v, up, b_u_left_right) ==
    IF m.fault # "none" THEN m
    ELSE IF v = NULL
    THEN IF up = NULL THEN root_reset(m, NULL)
         ELSE IF b_u_left_right THEN set_left(m, up, NULL) ELSE set_right(m, up, NULL)
    ELSE transplant_attach(m, v, up, b_u_left_right)

\* binary_search_tree::transplant(u, v, up, b_u_left_right)
transplant(m, u, v, up, b_u_left_right) ==
    IF m.fault # "none" THEN m
    ELSE IF v = NULL
    THEN IF up = NULL THEN root_reset(m, NULL)
         ELSE IF b_u_left_right THEN set_left(m, up, NULL) ELSE set_right(m, up, NULL)
    ELSE transplant_attach(
             IF ~has_parent(m, v) THEN m
             ELSE IF v = m.nd[m.nd[v].p].left THEN release_left(m, m.nd[v].p)
             ELSE release_right(m, m.nd[v].p),
             \* v = v->get_parent()->release_left() / release_right()
             IF ~has_parent(m, v) THEN v
             ELSE IF v = m.nd[m.nd[v].p].left THEN v
             ELSE m.nd[m.nd[v].p].right,
             up, b_u_left_right)

\* internal_remove, both children, successor not the right child: the four
\* transplant calls in turn, each on the state the one before left
remove_far_4(m, node, successor, b_node_left_right) ==
    transplant(m, node, successor, m.nd[node].p, b_node_left_right)

remove_far_3(m, node, successor, b_node_left_right) ==
    remove_far_4(transplant(m, m.nd[successor].left, m.nd[node].left, successor, TRUE),
                 node, successor, b_node_left_right)

remove_far_2(m, node, successor, b_node_left_right) ==
    remove_far_3(transplant(m, m.nd[successor].right, m.nd[node].right, successor, FALSE),
                 node, successor, b_node_left_right)

\* remove_far_1 without the transplant of the successor's right subtree into
\* the slot the successor had
remove_far_1_keeps_right(m, node, successor, ps, b_node_left_right) ==
    IF successor = NULL THEN Fault(m, "null_deref")
    ELSE remove_far_2(m, node, successor, b_node_left_right)

remove_far_1(m, node, successor, ps, b_node_left_right) ==
    IF successor = NULL THEN Fault(m, "null_deref")
    ELSE remove_far_2(transplant(m, m.nd[ps].left, m.nd[successor].right, ps, TRUE),
                      node, successor, b_node_left_right)

\* successor = successor->get_parent()->release_left()
remove_far(m, node, ps, b_node_left_right) ==
    remove_far_1(release_left(m, ps), node, m.nd[ps].left, ps, b_node_left_right)

\* internal_remove, both children, successor is the right child
remove_near_2(m, node, successor, b_node_left_right) ==
    transplant(m, node, successor, m.nd[node].p, b_node_left_right)

remove_near(m, node, successor, b_node_left_right) ==
    remove_near_2(transplant(m, m.nd[successor].left, m.nd[node].left, successor, TRUE),
                  node, successor, b_node_left_right)

\* remove_two_children that returns node's former parent
remove_two_children_returns_parent(m, node, successor, b_node_left_right) ==
    with_res(IF m.nd[node].right # successor
             THEN remove_far(m, node, m.nd[successor].p, b_node_left_right)
             ELSE remove_near(m, node, successor, b_node_left_right),
             m.nd[node].p)

remove_two_children(m, node, successor, b_node_left_right) ==
    with_res(IF m.nd[node].right # successor
             THEN remove_far(m, node, m.nd[successor].p, b_node_left_right)
             ELSE remove_near(m, node, successor, b_node_left_right),
             IF successor # NULL THEN successor ELSE m.nd[node].p)

\* tells if node is its parent's left or right (true when it has no parent)
b_node_left_right(m, node) ==
    IF has_parent(m, node) THEN node = m.nd[m.nd[node].p].left ELSE TRUE

\* binary_search_tree::internal_remove(node); m.res is the returned node
internal_remove(m, node) ==
    IF ~has_left(m, node)
    THEN with_res(transplant(m, node, m.nd[node].right, m.nd[node].p, b_node_left_right(m, node)),
                  IF has_right(m, node) THEN m.nd[node].right ELSE m.nd[node].p)
    ELSE IF ~has_right(m, node)
    THEN with_res(transplant(m, node, m.nd[node].left, m.nd[node].p, b_node_left_right(m, node)),
                  IF has_left(m, node) THEN m.nd[node].left ELSE m.nd[node].p)
    ELSE remove_two_children(m, node, internal_minimum(m, m.nd[node].right),
                             b_node_left_right(m, node))

\* remove(iterator) that reports success for an invalid position too
bst_remove_always_true(m, pos) ==
    IF valid(m, pos)
    THEN with_res(internal_remove(m, pos), 1)
    ELSE with_res(m, 1)

\* binary_search_tree::remove(iterator); m.res is the boolean returned (1 / 0)
bst_remove(m, pos) ==
    IF valid(m, pos)
    THEN with_res(internal_remove(m, pos), 1)
    ELSE with_res(m, 0)

\* ---------------------------------------------------------- avl_tree
\* fixed_branch_size_tree<T,2>::is_on_left_or_right(node), called on this:
\* "left", "right", or "ub" when the walk runs past the root (node is not a
\* proper descendant of this) and dereferences nullptr
RECURSIVE is_on_loop(_, _, _, _)
is_on_loop(m, this, x, y) ==
    IF y = this THEN (IF x = m.nd[this].left THEN "left" ELSE "right")
    ELSE IF y = NULL THEN "ub"
    ELSE is_on_loop(m, this, y, m.nd[y].p)

is_on_left_or_right(m, this, node) == is_on_loop(m, this, node, m.nd[node].p)

Balanced == [balanced |-> TRUE, pos |-> NULL, type |-> "none"]

\* imbalance_info(p, t); the type is "ub" when is_on_left_or_right was
\* undefined, else onleft / onright as the ternary of the caller picks
Imbalanced(y, s, onleft, onright) ==
    [balanced |-> FALSE, pos |-> y,
     type |-> IF s = "ub" THEN "ub" ELSE IF s = "left" THEN onleft ELSE onright]

Height0(m, c) == IF c # NULL THEN m.nd[c].height ELSE 0

\* the sum of the two heights in place of their difference
AbsDiff_sum(a, b) == a + b

AbsDiff(a, b) == IF a >= b THEN a - b ELSE b - a

\* check_balance_on_path that tolerates a height difference of 2
RECURSIVE check_balance_loop_lax(_, _, _, _)
check_balance_loop_lax(m, end, x, y) ==
    IF y = NULL THEN Balanced
    ELSE IF AbsDiff(Height0(m, m.nd[y].left), Height0(m, m.nd[y].right)) > 2
         THEN IF x = m.nd[y].left
              THEN Imbalanced(y, is_on_left_or_right(m, m.nd[y].left, end), "LL", "LR")
              ELSE IF m.nd[y].right = NULL
                   THEN Imbalanced(y, "ub", "RL", "RR")
                   ELSE Imbalanced(y, is_on_left_or_right(m, m.nd[y].right, end), "RL", "RR")
         ELSE check_balance_loop_lax(m, end, y, m.nd[y].p)

\* the loop of check_balance_on_path: x the node below, y the node examined
RECURSIVE check_balance_loop(_, _, _, _)
check_balance_loop(m, end, x, y) ==
    IF y = NULL THEN Balanced
    ELSE IF AbsDiff(Height0(m, m.nd[y].left), Height0(m, m.nd[y].right)) > 1
         THEN IF x = m.nd[y].left
              THEN Imbalanced(y, is_on_left_or_right(m, m.nd[y].left, end), "LL", "LR")
              ELSE IF m.nd[y].right = NULL
                   THEN Imbalanced(y, "ub", "RL", "RR")
                   ELSE Imbalanced(y, is_on_left_or_right(m, m.nd[y].right, end), "RL", "RR")
         ELSE check_balance_loop(m, end, y, m.nd[y].p)

\* avl_tree::check_balance_on_path(end): the imbalance_info
check_balance_on_path(m, end) == check_balance_loop(m, end, end, m.nd[end].p)

\* update_parent_branch that always takes the left slot of p
update_parent_branch_left(m, p, child, new_child) ==
    IF m.fault # "none" THEN m
    ELSE IF p # NULL
    THEN IF is_on_left_or_right(m, p, child) = "ub" THEN Fault(m, "null_deref")
         ELSE set_left(release_left(m, p), p, new_child)
    ELSE [m EXCEPT !.root = new_child]

\* the lambda update_parent_branch of avl_tree::rotate
update_parent_branch(m, p, child, new_child) ==
    IF m.fault # "none" THEN m
    ELSE IF p # NULL
    THEN IF is_on_left_or_right(m, p, child) = "ub" THEN Fault(m, "null_deref")
         ELSE IF is_on_left_or_right(m, p, child) = "left"
              THEN set_left(release_left(m, p), p, new_child)
              ELSE set_right(release_right(m, p), p, new_child)
    ELSE [m EXCEPT !.root = new_child]

\* case LL without b = k1->release_right()
rotate_LL_1_no_release(m, p, k2, k1) ==
    IF k1 = NULL THEN Fault(m, "null_deref")
    ELSE set_left(set_right(update_parent_branch(m, p, k2, k1), k1, k2),
                  k2, m.nd[k1].right)

\* case LL after k1 = k2->release_left()
rotate_LL_1(m, p, k2, k1) ==
    IF k1 = NULL THEN Fault(m, "null_deref")
    ELSE set_left(set_right(update_parent_branch(release_right(m, k1), p, k2, k1), k1, k2),
                  k2, m.nd[k1].right)

rotate_LL(m, k2) == rotate_LL_1(release_left(m, k2), m.nd[k2].p, k2, m.nd[k2].left)

\* the tail with k1 and k3 put on the wrong sides of k2
rotate_double_4_crossed(m, p, top, k1, k2, k3, b, c) ==
    set_right(set_left(set_left(set_right(update_parent_branch(m, p, top, k2), k1, b), k3, c),
                       k2, k3), k2, k1)

\* the tail shared by the text of LR and RL, after c = k2->release_right()
rotate_double_4(m, p, top, k1, k2, k3, b, c) ==
    set_right(set_left(set_left(set_right(update_parent_branch(m, p, top, k2), k1, b), k3, c),
                       k2, k1), k2, k3)

\* after b = k2->release_left()
rotate_double_3(m, p, top, k1, k2, k3, b) ==
    rotate_double_4(release_right(m, k2), p, top, k1, k2, k3, b, m.nd[k2].right)

\* case LR after k2 = k1->release_right()
rotate_LR_2(m, p, k1, k2, k3) ==
    IF k2 = NULL THEN Fault(m, "null_deref")
    ELSE rotate_double_3(release_left(m, k2), p, k3, k1, k2, k3, m.nd[k2].left)

\* case LR after k1 = k3->release_left()
rotate_LR_1(m, p, k1, k3) ==
    IF k1 = NULL THEN Fault(m, "null_deref")
    ELSE rotate_LR_2(release_right(m, k1), p, k1, m.nd[k1].right, k3)

rotate_LR(m, k3) == rotate_LR_1(release_left(m, k3), m.nd[k3].p, m.nd[k3].left, k3)

\* case RL after k2 = k3->release_left()
rotate_RL_2(m, p, k1, k2, k3) ==
    IF k2 = NULL THEN Fault(m, "null_deref")
    ELSE rotate_double_3(release_left(m, k2), p, k1, k1, k2, k3, m.nd[k2].left)

\* case RL after k3 = k1->release_right()
rotate_RL_1(m, p, k1, k3) ==
    IF k3 = NULL THEN Fault(m, "null_deref")
    ELSE rotate_RL_2(release_left(m, k3), p, k1, m.nd[k3].left, k3)

rotate_RL(m, k1) == rotate_RL_1(release_right(m, k1), m.nd[k1].p, k1, m.nd[k1].right)

\* case RR after k2 = k1->release_right()
rotate_RR_1(m, p, k1, k2) ==
    IF k2 = NULL THEN Fault(m, "null_deref")
    ELSE set_right(set_left(update_parent_branch(release_left(m, k2), p, k1, k2), k2, k1),
                   k1, m.nd[k2].left)

rotate_RR(m, k1) == rotate_RR_1(release_right(m, k1), m.nd[k1].p, k1, m.nd[k1].right)

\* avl_tree::rotate(info); counts the call in m.rot
rotate(m, info) ==
    CASE info.type = "LL" -> rotate_LL([m EXCEPT !.rot = @ + 1], info.pos)
      [] info.type = "LR" -> rotate_LR([m EXCEPT !.rot = @ + 1], info.pos)
      [] info.type = "RL" -> rotate_RL([m EXCEPT !.rot = @ + 1], info.pos)
      [] info.type = "RR" -> rotate_RR([m EXCEPT !.rot = @ + 1], info.pos)

\* if (!info.balanced) rotate(info), as both insert and remove run it
rotate_if_imbalanced(m, info) ==
    IF info.balanced THEN m
    ELSE IF info.type = "ub" THEN Fault(m, "null_deref")
    ELSE rotate(m, info)

check_and_rotate(m, end) == rotate_if_imbalanced(m, check_balance_on_path(m, end))

\* avl_tree::insert after super::insert returned pos (held in m.res)
avl_insert_check(m) ==
    IF valid(m, m.res) THEN with_res(check_and_rotate(m, m.res), m.res) ELSE m

\* avl_tree::insert
avl_insert(m, ele, bAllowDuplication) == avl_insert_check(bst_insert(m, ele, bAllowDuplication))

\* avl_tree::find_remove_path_end(pos): the node reached, or -1 when the walk
\* steps to an absent child and dereferences it
RECURSIVE find_remove_path_end(_, _)
find_remove_path_end(m, y) ==
    IF y = NULL THEN -1
    ELSE IF m.nd[y].height > 1
    THEN IF has_left(m, y)
         THEN IF m.nd[m.nd[y].left].height = m.nd[y].height - 1
              THEN find_remove_path_end(m, m.nd[y].left)
              ELSE find_remove_path_end(m, m.nd[y].right)
         ELSE find_remove_path_end(m, m.nd[y].right)
    ELSE y

\* avl_tree::remove after find_remove_path_end returned end
avl_remove_end(m, end) ==
    IF end = -1 THEN Fault(m, "null_deref")
    ELSE with_res(check_and_rotate(m, end), 1)

\* avl_tree::remove after internal_remove returned n (held in m.res)
avl_remove_check(m) ==
    IF m.fault # "none" THEN m
    ELSE IF m.res # NULL THEN avl_remove_end(m, find_remove_path_end(m, m.res))
    ELSE with_res(m, 1)

\* avl_tree::remove(iterator); m.res is the boolean returned (1 / 0)
avl_remove(m, pos) ==
    IF valid(m, pos) THEN avl_remove_check(internal_remove(m, pos)) ELSE with_res(m, 0)

\* ---------------------------------------------------------- tree_set
\* tree_set::add: the iterator container.insert(ele, false) returned is m.res
add(m, ele) == avl_insert(m, ele, FALSE)

\* tree_set::contains
contains(m, ele) == valid(m, find(m, ele))

\* tree_set::remove: container.remove(ele); m.res is the boolean returned
set_remove(m, ele) == avl_remove(m, find(m, ele))

\* tree<T>::release_object: hands out the stored object (m.res, its value) and
\* leaves the node without one
release_object(m, y) == [m EXCEPT !.nd[y].val = 0, !.res = m.nd[y].val]

\* the loop of any_element: y ends as the leftmost node
RECURSIVE any_leftmost(_, _)
any_leftmost(m, y) ==
    IF m.nd[y].left # NULL THEN any_leftmost(m, m.nd[y].left) ELSE y

\* any_element once y is found: y is not the root / y is the root
any_element_at(m, y) ==
    IF y # m.root
    THEN reset_left(release_object(m, y), m.nd[y].p)
    ELSE root_reset(release_right(release_object(m, y), y), m.nd[y].right)

\* tree_set::any_element; m.res is the value of the object returned, 0 for nullptr
any_element(m) ==
    IF m.root # NULL THEN any_element_at(m, any_leftmost(m, m.root)) ELSE with_res(m, 0)

\* ------------------------------------------------------- max_heap_lw
\* binary_heap::left / right / parent, on the indices from 1 the heap exposes
heap_left(ind) == 2 * ind
heap_right(ind) == 2 * ind + 1
heap_parent(ind) == ind \div 2

\* std::swap(data[i - 1], data[j - 1])
swap(d, i, j) == [d EXCEPT ![i] = d[j], ![j] = d[i]]

\* the while loop of insert and update_element
RECURSIVE sift_up(_, _)
sift_up(d, i) ==
    IF i > 1 /\ d[heap_parent(i)] < d[i]
    THEN sift_up(swap(d, heap_parent(i), i), heap_parent(i))
    ELSE d

\* the index heapify finds largest among i and its children
largest_of(d, i, start) ==
    IF heap_right(i) <= Len(d) /\ d[heap_right(i)] > d[start] THEN heap_right(i) ELSE start

largest_ind(d, i) ==
    largest_of(d, i, IF heap_left(i) <= Len(d) /\ d[heap_left(i)] > d[i] THEN heap_left(i) ELSE i)

\* heapify that never looks at the right child
RECURSIVE heapify_left_only(_, _)
heapify_left_only(d, i) ==
    IF i > 0 /\ i < Len(d)
    THEN IF heap_left(i) <= Len(d) /\ d[heap_left(i)] > d[i]
         THEN heapify_left_only(swap(d, i, heap_left(i)), heap_left(i))
         ELSE d
    ELSE d

\* max_heap_lw::heapify
RECURSIVE heapify(_, _)
heapify(d, i) ==
    IF i > 0 /\ i < Len(d)
    THEN IF largest_ind(d, i) # i
         THEN heapify(swap(d, i, largest_ind(d, i)), largest_ind(d, i))
         ELSE d
    ELSE d

\* vector::remove_back
remove_back(d) == IF Len(d) # 0 THEN SubSeq(d, 1, Len(d) - 1) ELSE d

\* max_heap_lw::extract_top on a non-empty heap: the vector left behind
extract_top(d) == heapify(remove_back([d EXCEPT ![1] = d[Len(d)]]), 1)

\* max_heap_lw::insert: vector::push_back, then the loop
heap_insert(d, val) == sift_up(Append(d, val), Len(d) + 1)

\* max_heap_lw::update_element
update_element(d, i, new_val) ==
    IF new_val > d[i] THEN sift_up([d EXCEPT ![i] = new_val], i) ELSE d

\* ---------------------------------------------- list / priority_queue
\* list<T> is the sequence of its objects from head to tail; an iterator is
\* the index n of its node and the flag b_end
list_empty(l) == l = <<>>

\* list::end(): tail with b_end set (no node when the list is empty)
list_end(l) == [n |-> Len(l), b_end |-> TRUE]

\* list::begin()
list_begin(l) == IF list_empty(l) THEN list_end(l) ELSE [n |-> 1, b_end |-> FALSE]

\* iterator::operator++
iter_next(l, i) == IF i.n < Len(l) THEN [i EXCEPT !.n = i.n + 1] ELSE [i EXCEPT !.b_end = TRUE]

\* insert that puts the element after the position
list_insert_after(l, pos, ele) ==
    IF ~list_empty(l)
    THEN IF pos.b_end THEN Append(l, ele)
         ELSE SubSeq(l, 1, pos.n) \o <<ele>> \o SubSeq(l, pos.n + 1, Len(l))
    ELSE <<ele>>

\* list::insert(pos, ele): before end, before head, between pos.n->prev and pos.n
list_insert(l, pos, ele) ==
    IF ~list_empty(l)
    THEN IF pos.b_end THEN Append(l, ele)
         ELSE IF pos.n = 1 THEN <<ele>> \o l
         ELSE SubSeq(l, 1, pos.n - 1) \o <<ele>> \o SubSeq(l, pos.n, Len(l))
    ELSE <<ele>>

\* list::insert_back
insert_back(l, ele) == list_insert(l, list_end(l), ele)

\* list::remove(pos) for pos.n the head, as remove_front calls it
remove_front(l) == IF ~list_empty(l) THEN Tail(l) ELSE l

\* the test of push: obj <= *i for priority_queue<T, true>, !(obj <= *i) for
\* priority_queue<T, false>
push_here(ascending, obj, x) == IF ascending THEN obj <= x ELSE ~(obj <= x)

\* the for loop of push with what follows it
RECURSIVE push_loop(_, _, _, _)
push_loop(ascending, l, i, obj) ==
    IF i = list_end(l) THEN insert_back(l, obj)
    ELSE IF push_here(ascending, obj, l[i.n]) THEN list_insert(l, i, obj)
    ELSE push_loop(ascending, l, iter_next(l, i), obj)

\* priority_queue::push
push(ascending, l, obj) == push_loop(ascending, l, list_begin(l), obj)

\* priority_queue::pop on a non-empty queue: the list left behind
pop(l) == remove_front(l)

\* ---------------------------------------------------------- actions
NoCall == [op |-> "none", val |-> 0, dup |-> FALSE, res |-> NULL, ok |-> FALSE, rot |-> 0]

Live == {i \in Ids : nd[i].live}

\* the calls of the scenario: 4,2,6,1,3,5,7 inserted, then 4, 6 and 1 removed
Scenario ==
    << <<"insert", 4>>, <<"insert", 2>>, <<"insert", 6>>, <<"insert", 1>>,
       <<"insert", 3>>, <<"insert", 5>>, <<"insert", 7>>,
       <<"remove", 4>>, <<"remove", 6>>, <<"remove", 1>> >>

\* the position that stands for "no longer on the scenario"
Off == Len(Scenario) + 1

\* the position in Scenario after one more call
Follow(call) ==
    IF script # Off /\ script < Len(Scenario) /\ Scenario[script + 1] = <<call.op, call.val>>
    THEN script + 1
    ELSE Off

\* the machine state of the current state
Cur == Mach(nd, root)

Commit(m, call) ==
    /\ nd' = m.nd
    /\ root' = m.root
    /\ fault' = m.fault
    /\ last' = call
    /\ script' = Follow(call)
    /\ UNCHANGED <<layer, num_eles, data, lst>>

CommitInsert(m, v, dup) ==
    Commit(m, [op |-> "insert", val |-> v, dup |-> dup, res |-> m.res,
               ok |-> (m.fault = "none" /\ valid(m, m.res)), rot |-> m.rot])

CommitRemove(m, opname, pos, v) ==
    Commit(m, [op |-> opname, val |-> v, dup |-> FALSE, res |-> pos,
               ok |-> (m.fault = "none" /\ m.res = 1), rot |-> m.rot])

\* tree.insert(new T(v), dup)
DoInsert(v, dup) ==
    CommitInsert(IF layer = "avl" THEN avl_insert(Cur, v, dup) ELSE bst_insert(Cur, v, dup),
                 v, dup)

\* tree.remove(iterator(pos))
DoRemove(opname, pos, v) ==
    CommitRemove(IF layer = "avl" THEN avl_remove(Cur, pos) ELSE bst_remove(Cur, pos),
                 opname, pos, v)

Insert(v, dup) ==
    /\ fault = "none"
    /\ Cardinality(Live) < MaxNodes
    /\ CanAlloc(Cur, v)
    /\ DoInsert(v, dup)

\* tree.remove(v), that is remove(find(v))
Remove(v) ==
    /\ fault = "none"
    /\ DoRemove("remove", find(Cur, v), v)

\* tree.remove(pos) on an iterator that designates a node of the tree
RemoveAt(pos) ==
    /\ fault = "none"
    /\ nd[pos].live
    /\ DoRemove("remove_at", pos, nd[pos].val)

Init ==
    /\ layer \in Layers
    /\ nd = [i \in 1..(MaxVal * MaxDup) |-> FreeNode]
    /\ root = NULL
    /\ fault = "none"
    /\ last = NoCall
    /\ num_eles = 0
    /\ script = 0
    /\ data = <<>>
    /\ lst = <<>>

Next ==
    \/ \E v \in 1..MaxVal, dup \in BOOLEAN : Insert(v, dup)
    \/ \E v \in 1..MaxVal : Remove(v)
    \/ \E pos \in Ids : RemoveAt(pos)

Spec == Init /\ [][Next]_vars

\* the AVL layer alone, fed pairwise distinct values
AvlInit ==
    /\ layer = "avl"
    /\ nd = [i \in 1..(AvlVals * MaxDup) |-> FreeNode]
    /\ root = NULL
    /\ fault = "none"
    /\ last = NoCall
    /\ num_eles = 0
    /\ script = 0
    /\ data = <<>>
    /\ lst = <<>>

AvlInsertNew(v) ==
    /\ fault = "none"
    /\ \A k \in 1..MaxDup : ~nd[Addr(v, k)].live
    /\ DoInsert(v, FALSE)

AvlNext ==
    \/ \E v \in 1..AvlVals : AvlInsertNew(v)
    \/ \E v \in 1..AvlVals : Remove(v)

AvlSpec == AvlInit /\ [][AvlNext]_vars

\* nodes used directly, without a tree object: the caller constructs nodes,
\* holds the detached ones (live, no parent) and calls the node's own functions
NodeInit ==
    /\ layer \in {"bst", "bsth"}
    /\ nd = [i \in 1..NodeNodes |-> FreeNode]
    /\ root = NULL
    /\ fault = "none"
    /\ last = NoCall
    /\ num_eles = 0
    /\ script = 0
    /\ data = <<>>
    /\ lst = <<>>

\* the nodes the caller holds: heads of the detached trees
Detached == {i \in Live : nd[i].p = NULL}

\* the head of the tree node n is in
RECURSIVE HeadOf(_, _)
HeadOf(h, n) == IF h[n].p = NULL THEN n ELSE HeadOf(h, h[n].p)

\* what may be passed to t.set_left / t.set_right: nothing, or a detached
\* tree other than the one t is in
Args(t) == {NULL} \cup (Detached \ {HeadOf(nd, t)})

\* stored heights go stale and can then grow without end; calls that would
\* store a height above HeightCap are left out
HeightCap == NodeNodes

NodeCall(m, opname, t, r) ==
    /\ \A i \in Ids : m.nd[i].height <= HeightCap
    /\ Commit(m, [op |-> opname, val |-> nd[t].val, dup |-> FALSE, res |-> r,
               ok |-> TRUE, rot |-> 0, at |-> t])

\* new Container<T>(new T(id)) at the lowest free address id
NodeNew ==
    /\ Live # Ids
    /\ LET id == CHOOSE i \in Ids \ Live : \A j \in Ids \ Live : i <= j
       IN Commit(new_node(Cur, id, id, NULL),
                 [op |-> "new", val |-> id, dup |-> FALSE, res |-> id,
                  ok |-> TRUE, rot |-> 0, at |-> id])

NodeSetLeft(t, n) == t \in Live /\ n \in Args(t) /\ NodeCall(set_left(Cur, t, n), "set_left", t, n)

NodeSetRight(t, n) == t \in Live /\ n \in Args(t) /\ NodeCall(set_right(Cur, t, n), "set_right", t, n)

NodeResetLeft(t) == t \in Live /\ NodeCall(reset_left(Cur, t), "reset_left", t, NULL)

NodeResetRight(t) == t \in Live /\ NodeCall(reset_right(Cur, t), "reset_right", t, NULL)

NodeReleaseLeft(t) ==
    t \in Live /\ NodeCall(release_left(Cur, t), "release_left", t, nd[t].left)

NodeReleaseRight(t) ==
    t \in Live /\ NodeCall(release_right(Cur, t), "release_right", t, nd[t].right)

NodeNext ==
    \/ NodeNew
    \/ \E t \in Ids, n \in Ids \cup {NULL} : NodeSetLeft(t, n)
    \/ \E t \in Ids, n \in Ids \cup {NULL} : NodeSetRight(t, n)
    \/ \E t \in Ids : NodeResetLeft(t)
    \/ \E t \in Ids : NodeResetRight(t)
    \/ \E t \in Ids : NodeReleaseLeft(t)
    \/ \E t \in Ids : NodeReleaseRight(t)

NodeSpec == NodeInit /\ [][NodeNext]_vars

\* tree_set<int>: container is (nd, root), num_eles the counter
SetCommit(m, call, n) ==
    /\ nd' = m.nd
    /\ root' = m.root
    /\ fault' = m.fault
    /\ last' = call
    /\ num_eles' = n
    /\ script' = Follow(call)
    /\ UNCHANGED <<layer, data, lst>>

\* add that forgets to count the element
CommitAdd_no_count(m, v) ==
    SetCommit(m, [op |-> "add", val |-> v, dup |-> FALSE, res |-> m.res,
                  ok |-> (m.fault = "none" /\ valid(m, m.res)), rot |-> m.rot],
              num_eles)

\* tree_set::add: ++num_eles when the iterator returned is valid
CommitAdd(m, v) ==
    SetCommit(m, [op |-> "add", val |-> v, dup |-> FALSE, res |-> m.res,
                  ok |-> (m.fault = "none" /\ valid(m, m.res)), rot |-> m.rot],
              IF m.fault = "none" /\ valid(m, m.res) THEN num_eles + 1 ELSE num_eles)

CommitSetRemove(m, v) ==
    SetCommit(m, [op |-> "set_remove", val |-> v, dup |-> FALSE, res |-> NULL,
                  ok |-> (m.fault = "none" /\ m.res = 1), rot |-> m.rot],
              IF m.fault = "none" /\ m.res = 1 THEN num_eles - 1 ELSE num_eles)

CommitAnyElement(m) ==
    SetCommit(m, [op |-> "any_element", val |-> m.res, dup |-> FALSE, res |-> NULL,
                  ok |-> (m.fault = "none" /\ m.res # 0), rot |-> 0],
              IF m.fault = "none" /\ m.res # 0 THEN num_eles - 1 ELSE num_eles)

\* set.add(new int(v)); num_eles can run ahead of the nodes held, it is kept
\* below the number of addresses
Add(v) ==
    /\ fault = "none"
    /\ CanAlloc(Cur, v)
    /\ num_eles < Cardinality(Ids)
    /\ CommitAdd(add(Cur, v), v)

\* set.remove(v)
SetRemove(v) ==
    /\ fault = "none"
    /\ CommitSetRemove(set_remove(Cur, v), v)

\* set.any_element()
AnyElement ==
    /\ fault = "none"
    /\ CommitAnyElement(any_element(Cur))

\* a set that is only added to
AddInit ==
    /\ layer = "avl"
    /\ nd = [i \in 1..(AddVals * MaxDup) |-> FreeNode]
    /\ root = NULL
    /\ fault = "none"
    /\ last = NoCall
    /\ num_eles = 0
    /\ script = 0
    /\ data = <<>>
    /\ lst = <<>>

AddNext == \E v \in 1..AddVals : Add(v)

AddSpec == AddInit /\ [][AddNext]_vars

\* a set under all its modifying calls
SetInit ==
    /\ layer = "avl"
    /\ nd = [i \in 1..(SetVals * MaxDup) |-> FreeNode]
    /\ root = NULL
    /\ fault = "none"
    /\ last = NoCall
    /\ num_eles = 0
    /\ script = 0
    /\ data = <<>>
    /\ lst = <<>>

SetNext ==
    \/ \E v \in 1..SetVals : Add(v)
    \/ \E v \in 1..SetVals : SetRemove(v)
    \/ AnyElement

SetSpec == SetInit /\ [][SetNext]_vars

\* max_heap_lw<int>
HeapInit ==
    /\ layer = "bst"
    /\ nd = <<>>
    /\ root = NULL
    /\ fault = "none"
    /\ last = NoCall
    /\ num_eles = 0
    /\ script = Off
    /\ data = <<>>
    /\ lst = <<>>

HeapCommit(d, call) ==
    /\ data' = d
    /\ last' = call
    /\ UNCHANGED <<layer, nd, root, fault, num_eles, script, lst>>

\* heap.insert(v)
HeapInsert(v) ==
    /\ Len(data) < HeapLen
    /\ HeapCommit(heap_insert(data, v),
                  [op |-> "heap_insert", val |-> v, dup |-> FALSE, res |-> NULL,
                   ok |-> TRUE, rot |-> 0])

\* heap.extract_top() on a non-empty heap; res is the value returned
HeapExtractTop ==
    /\ Len(data) > 0
    /\ HeapCommit(extract_top(data),
                  [op |-> "extract_top", val |-> data[1], dup |-> FALSE, res |-> data[1],
                   ok |-> TRUE, rot |-> 0])

\* heap.update_element(i, v) with v greater than the value at i
HeapUpdate(i, v) ==
    /\ i \in 1..Len(data)
    /\ v > data[i]
    /\ HeapCommit(update_element(data, i, v),
                  [op |-> "update_element", val |-> v, dup |-> FALSE, res |-> i,
                   ok |-> TRUE, rot |-> 0])

HeapNext ==
    \/ \E v \in 1..HeapVals : HeapInsert(v)
    \/ HeapExtractTop
    \/ \E i \in 1..HeapLen, v \in 1..HeapVals : HeapUpdate(i, v)

HeapSpec == HeapInit /\ [][HeapNext]_vars

\* priority_queue<int, A>; layer tells the specialization
Ascending == layer = "ascending"

PqInit ==
    /\ layer \in {"ascending", "descending"}
    /\ nd = <<>>
    /\ root = NULL
    /\ fault = "none"
    /\ last = NoCall
    /\ num_eles = 0
    /\ script = Off
    /\ data = <<>>
    /\ lst = <<>>

PqCommit(l, call) ==
    /\ lst' = l
    /\ last' = call
    /\ UNCHANGED <<layer, nd, root, fault, num_eles, script, data>>

\* queue.push(v)
Push(v) ==
    /\ Len(lst) < PqLen
    /\ PqCommit(push(Ascending, lst, v),
                [op |-> "push", val |-> v, dup |-> FALSE, res |-> NULL, ok |-> TRUE, rot |-> 0])

\* queue.pop() on a non-empty queue; res is the value returned, lst.front()
Pop ==
    /\ ~list_empty(lst)
    /\ PqCommit(pop(lst),
                [op |-> "pop", val |-> Head(lst), dup |-> FALSE, res |-> Head(lst),
                 ok |-> TRUE, rot |-> 0])

PqNext ==
    \/ \E v \in 1..PqVals : Push(v)
    \/ Pop

PqSpec == PqInit /\ [][PqNext]_vars

\* the AVL tree of the scenario: values 1..ScrVals, each stored at most once
ScrInit ==
    /\ layer = "avl"
    /\ nd = [i \in 1..(ScrVals * MaxDup) |-> FreeNode]
    /\ root = NULL
    /\ fault = "none"
    /\ last = NoCall
    /\ num_eles = 0
    /\ script = 0
    /\ data = <<>>
    /\ lst = <<>>

\* tree.insert(new int(v)) of a value not stored
ScrInsert(v) ==
    /\ fault = "none"
    /\ \A k \in 1..MaxDup : ~nd[Addr(v, k)].live
    /\ DoInsert(v, TRUE)

ScrNext ==
    \/ \E v \in 1..ScrVals : ScrInsert(v)
    \/ \E v \in 1..ScrVals : Remove(v)

ScriptSpec == ScrInit /\ [][ScrNext]_vars

\* the AVL layer alone, fed by insert calls only (duplicates allowed or not)
InsInit ==
    /\ layer = "avl"
    /\ nd = [i \in 1..(InsVals * MaxDup) |-> FreeNode]
    /\ root = NULL
    /\ fault = "none"
    /\ last = NoCall
    /\ num_eles = 0
    /\ script = 0
    /\ data = <<>>
    /\ lst = <<>>

InsInsert(v, dup) ==
    /\ fault = "none"
    /\ Cardinality(Live) < InsNodes
    /\ CanAlloc(Cur, v)
    /\ DoInsert(v, dup)

InsNext == \E v \in 1..InsVals, dup \in BOOLEAN : InsInsert(v, dup)

InsSpec == InsInit /\ [][InsNext]_vars

\* all three layers, fed pairwise distinct values
KeyInit ==
    /\ layer \in Layers
    /\ nd = [i \in 1..(MaxKey * MaxDup) |-> FreeNode]
    /\ root = NULL
    /\ fault = "none"
    /\ last = NoCall
    /\ num_eles = 0
    /\ script = 0
    /\ data = <<>>
    /\ lst = <<>>

InsertKey(v, dup) ==
    /\ fault = "none"
    /\ \A k \in 1..MaxDup : ~nd[Addr(v, k)].live
    /\ DoInsert(v, dup)

KeyNext ==
    \/ \E v \in 1..MaxKey, dup \in BOOLEAN : InsertKey(v, dup)
    \/ \E v \in 1..MaxKey : Remove(v)

KeySpec == KeyInit /\ [][KeyNext]_vars

\* binary_search_tree::minimum() / maximum(): internal_minimum(get_root());
\* on an empty tree internal_minimum reads node->left of a null node
minimum(m) ==
    IF m.root = NULL THEN Fault(m, "null_deref")
    ELSE with_res(m, internal_minimum(m, m.root))

maximum(m) ==
    IF m.root = NULL THEN Fault(m, "null_deref")
    ELSE with_res(m, internal_maximum(m, m.root))

\* the do-while of iterator::successor: up while the node left is a right child
RECURSIVE successor_climb(_, _)
successor_climb(m, child) ==
    IF m.nd[child].p # NULL /\ child = m.nd[m.nd[child].p].right
    THEN successor_climb(m, m.nd[child].p)
    ELSE m.nd[child].p

\* successor that stops at the first parent, whatever side it is left from
successor_one_step(m, node) ==
    IF has_right(m, node) THEN internal_minimum(m, m.nd[node].right)
    ELSE m.nd[node].p

\* iterator::successor(): the node of the returned iterator
successor(m, node) ==
    IF has_right(m, node) THEN internal_minimum(m, m.nd[node].right)
    ELSE successor_climb(m, node)

\* the do-while of iterator::predecessor: up while the node left is a left child
RECURSIVE predecessor_climb(_, _)
predecessor_climb(m, child) ==
    IF m.nd[child].p # NULL /\ child = m.nd[m.nd[child].p].left
    THEN predecessor_climb(m, m.nd[child].p)
    ELSE m.nd[child].p

\* predecessor that takes the left child itself in place of its maximum
predecessor_left_child(m, node) ==
    IF has_left(m, node) THEN m.nd[node].left
    ELSE predecessor_climb(m, node)

\* iterator::predecessor(): the node of the returned iterator
predecessor(m, node) ==
    IF has_left(m, node) THEN internal_maximum(m, m.nd[node].left)
    ELSE predecessor_climb(m, node)

\* the plain BST engine with its queries and the iterator they return; the
\* iterator is the position the last call returned (last.res)
IterInit ==
    /\ layer = "bst"
    /\ nd = [i \in 1..(IterVals * MaxDup) |-> FreeNode]
    /\ root = NULL
    /\ fault = "none"
    /\ last = NoCall
    /\ num_eles = 0
    /\ script = 0
    /\ data = <<>>
    /\ lst = <<>>

IterOps == {"insert", "find", "minimum", "maximum", "successor", "predecessor"}

\* a call that returns an iterator and leaves the tree alone
CommitQuery(m, opname, v) ==
    Commit(m, [op |-> opname, val |-> v, dup |-> FALSE, res |-> m.res,
               ok |-> (m.fault = "none" /\ valid(m, m.res)), rot |-> 0])

IterInsert(v, dup) ==
    /\ fault = "none"
    /\ Cardinality(Live) < IterNodes
    /\ CanAlloc(Cur, v)
    /\ DoInsert(v, dup)

\* tree.find(v)
Find(v) ==
    /\ fault = "none"
    /\ CommitQuery(with_res(Cur, find(Cur, v)), "find", v)

\* tree.minimum()
Minimum ==
    /\ fault = "none"
    /\ CommitQuery(minimum(Cur), "minimum", 0)

\* tree.maximum()
Maximum ==
    /\ fault = "none"
    /\ CommitQuery(maximum(Cur), "maximum", 0)

\* it.successor() on the valid iterator the last call returned
Successor ==
    /\ fault = "none"
    /\ last.op \in IterOps /\ valid(Cur, last.res)
    /\ CommitQuery(with_res(Cur, successor(Cur, last.res)), "successor", nd[last.res].val)

\* it.predecessor() on the valid iterator the last call returned
Predecessor ==
    /\ fault = "none"
    /\ last.op \in IterOps /\ valid(Cur, last.res)
    /\ CommitQuery(with_res(Cur, predecessor(Cur, last.res)), "predecessor", nd[last.res].val)

IterNext ==
    \/ \E v \in 1..IterVals, dup \in BOOLEAN : IterInsert(v, dup)
    \/ \E v \in 1..IterVals : Remove(v)
    \/ \E v \in 1..IterVals : Find(v)
    \/ Minimum
    \/ Maximum
    \/ Successor
    \/ Predecessor

IterSpec == IterInit /\ [][IterNext]_vars

\* ---------------------------------------------- structure of a heap
\* nodes owned, directly or not, by the slot holding n (fuel bounds the walk)
RECURSIVE SubF(_, _, _)
SubF(h, n, fuel) ==
    IF n = NULL \/ fuel = 0 THEN {}
    ELSE {n} \cup SubF(h, h[n].left, fuel - 1) \cup SubF(h, h[n].right, fuel - 1)

Fuel(h) == Cardinality(DOMAIN h) + 1
SubOf(h, n) == SubF(h, n, Fuel(h))
InTree == SubOf(nd, root)

\* height measured on the structure: nodes on the longest downward path
RECURSIVE HeightF(_, _, _)
HeightF(h, n, fuel) ==
    IF n = NULL \/ fuel = 0 THEN 0
    ELSE 1 + Max2(HeightF(h, h[n].left, fuel - 1), HeightF(h, h[n].right, fuel - 1))

TrueHeight(h, n) == HeightF(h, n, Fuel(h))

\* in-order sequence of the nodes under n
RECURSIVE InorderF(_, _, _)
InorderF(h, n, fuel) ==
    IF n = NULL \/ fuel = 0 THEN <<>>
    ELSE InorderF(h, h[n].left, fuel - 1) \o <<n>> \o InorderF(h, h[n].right, fuel - 1)

Inorder(h, n) == InorderF(h, n, Fuel(h))

NodeBalanced(h, n) == AbsDiff(TrueHeight(h, h[n].left), TrueHeight(h, h[n].right)) <= 1
AllBalanced(h, r) == \A n \in SubOf(h, r) : NodeBalanced(h, n)

\* the values held by the nodes of the tree
StoredVals(h, r) == {h[n].val : n \in SubOf(h, r)}
DistinctVals(h, r) == \A a, b \in SubOf(h, r) : a # b => h[a].val # h[b].val

Returned == fault = "none"

Vals(h, seq) == [i \in 1..Len(seq) |-> h[seq[i]].val]
NonDecreasing(seq) == \A i \in 1..(Len(seq) - 1) : seq[i] <= seq[i + 1]

\* ------------------------------------------------------------ claims

\* C1: avl_tree: after every insert or remove call that returns, every node
\* has |height(left) - height(right)| <= 1 on the actual structure and the
\* call performed at most one rotation
C1_AvlBalancedAfterEveryCall ==
    (layer = "avl" /\ Returned) => (AllBalanced(nd, root) /\ last.rot <= 1)

\* C2: avl_tree, insert calls only: an insert runs bst_insert and then exactly
\* one rotation when bst_insert left some node imbalanced, none otherwise, it
\* returns, and on return every node is balanced
C2_InsertRotatesOnceWhenImbalanced ==
    [][(layer = "avl" /\ last'.op = "insert") =>
         LET m1 == bst_insert(Cur, last'.val, last'.dup)
             imbalanced == last'.ok /\ ~AllBalanced(m1.nd, m1.root)
         IN /\ fault' = "none"
            /\ last'.rot = (IF imbalanced THEN 1 ELSE 0)
            /\ AllBalanced(nd', root')]_vars

\* an insert that rotated, in a tree of six nodes or more that holds a duplicate
C2_Witness ==
    /\ layer = "avl" /\ Returned
    /\ last.op = "insert" /\ last.rot = 1
    /\ Cardinality(InTree) >= 6
    /\ ~DistinctVals(nd, root)

\* C3: on every layer, after every insert (duplicates allowed or not) or remove
\* call that returns, the in-order traversal of the stored values is
\* non-decreasing
C3_InorderNonDecreasing ==
    Returned => NonDecreasing(Vals(nd, Inorder(nd, root)))

\* a tree of three nodes or more holding a duplicate, reached by a remove
C3_Witness ==
    /\ Returned
    /\ last.op \in {"remove", "remove_at"} /\ last.ok
    /\ Cardinality(InTree) >= 3
    /\ ~DistinctVals(nd, root)

\* C4: insert(value, allow_duplication = false) of a value stored anywhere in
\* the tree creates no node, returns an invalid position and leaves the tree
\* unchanged
C4_NoDupInsertOfStoredIsNoOp ==
    [][(last'.op = "insert" /\ ~last'.dup /\ last'.val \in StoredVals(nd, root)) =>
         (nd' = nd /\ root' = root /\ ~last'.ok)]_vars

\* C5: with height-augmented nodes, after every insert or remove call that
\* returns, every node's stored height is 1 + max of its children's stored
\* heights (0 for an absent child)
C5_StoredHeightsConsistent ==
    (HasHeight /\ Returned) =>
        \A n \in InTree :
            nd[n].height = 1 + Max2(Height0(Cur, nd[n].left), Height0(Cur, nd[n].right))

\* C6: avl_tree holding distinct values: remove(v) of a stored v returns true;
\* afterwards find(v) is invalid and every other stored value is still found
C6_AvlRemoveStoredSucceeds ==
    [][(layer = "avl" /\ last'.op = "remove" /\ DistinctVals(nd, root)
            /\ last'.val \in StoredVals(nd, root)) =>
         LET after == Mach(nd', root')
         IN /\ fault' = "none"
            /\ last'.ok
            /\ ~valid(after, find(after, last'.val))
            /\ \A w \in StoredVals(nd, root) \ {last'.val} :
                   valid(after, find(after, w)) /\ nd'[find(after, w)].val = w]_vars

\* C7: plain BST engine holding distinct values: after insert(v), find(v) is a
\* valid position whose value is v; after remove(v), find(v) is invalid
C7_BstInsertFindRemove ==
    [][(layer = "bst" /\ DistinctVals(nd, root)) =>
         LET after == Mach(nd', root')
         IN /\ (last'.op = "insert" /\ last'.val \notin StoredVals(nd, root)) =>
                   (valid(after, find(after, last'.val))
                        /\ nd'[find(after, last'.val)].val = last'.val)
            /\ (last'.op = "remove" /\ last'.val \in StoredVals(nd, root)) =>
                   ~valid(after, find(after, last'.val))]_vars

\* a value removed again from a plain BST that still holds four nodes or more
C7_Witness ==
    /\ layer = "bst" /\ Returned
    /\ last.op = "remove" /\ last.ok
    /\ Cardinality(InTree) >= 4
    /\ DistinctVals(nd, root)
    /\ ~valid(Cur, find(Cur, last.val))

\* C8: binary_search_tree::remove(value) returns true iff the value was stored
\* before the call; when it was absent the call returns false and leaves
\* nodes, links and values unchanged
C8_BstRemoveReturnsPresence ==
    [][(layer \in {"bst", "bsth"} /\ last'.op = "remove") =>
         /\ fault' = "none"
         /\ last'.ok <=> (last'.val \in StoredVals(nd, root))
         /\ (last'.val \notin StoredVals(nd, root)) => (nd' = nd /\ root' = root)]_vars

\* remove of an absent value from a tree of two nodes or more returned false
C8_Witness ==
    /\ layer \in {"bst", "bsth"} /\ Returned
    /\ last.op = "remove" /\ ~last.ok
    /\ Cardinality(InTree) >= 2
    /\ last.val \notin StoredVals(nd, root)

\* C9: after every public operation that returns, every node held in a child
\* slot of node A has A as parent back-reference, and the root's parent
\* back-reference is absent
ParentLinks(h, r) ==
    /\ r # NULL => h[r].p = NULL
    /\ \A a \in SubOf(h, r) :
        /\ h[a].left # NULL => h[h[a].left].p = a
        /\ h[a].right # NULL => h[h[a].right].p = a

C9_ParentBackReferences == Returned => ParentLinks(nd, root)

\* an AVL remove that rotated and left four nodes or more
C9_Witness ==
    /\ layer = "avl" /\ Returned
    /\ last.op \in {"remove", "remove_at"} /\ last.rot = 1
    /\ Cardinality(InTree) >= 4

\* C10: after every call that returns, ownership is a tree: every live node is
\* held by exactly one owning slot (the root slot or one child slot), slots
\* hold live nodes only, no node is below itself, every live node is reachable
\* from the root, and a call destroys no node but the one it removes
LiveOf(h) == {a \in DOMAIN h : h[a].live}

\* the number of owning slots that hold n
Owners(h, r, n) ==
    Cardinality({a \in LiveOf(h) : h[a].left = n})
        + Cardinality({a \in LiveOf(h) : h[a].right = n})
        + (IF r = n THEN 1 ELSE 0)

OwnershipTree(h, r) ==
    /\ r # NULL => h[r].live
    /\ \A n \in LiveOf(h) :
        /\ Owners(h, r, n) = 1
        /\ h[n].left # NULL => h[h[n].left].live
        /\ h[n].right # NULL => h[h[n].right].live
    /\ \A n \in LiveOf(h) : n \notin (SubOf(h, h[n].left) \cup SubOf(h, h[n].right))
    /\ LiveOf(h) \subseteq SubOf(h, r)

C10_OwnershipIsATree ==
    [][fault' = "none" =>
         /\ OwnershipTree(nd', root')
         /\ {n \in Ids : nd[n].live /\ ~nd'[n].live}
                \subseteq (IF last'.op \in {"remove", "remove_at"} /\ last'.ok
                           THEN {last'.res} ELSE {})]_vars

\* a remove returned on a tree that keeps four nodes or more, one of them
\* with two children
C10_Witness ==
    /\ Returned
    /\ last.op \in {"remove", "remove_at"} /\ last.ok
    /\ Cardinality(InTree) >= 4
    /\ Cardinality(Live) = Cardinality(InTree)
    /\ \E n \in InTree : nd[n].left # NULL /\ nd[n].right # NULL

\* C11: a remove(position) that returns true destroys exactly the node at the
\* position: the live nodes afterwards are the previous ones without it, each
\* of them holds the value it held and is in the tree, and so the stored
\* values are the previous ones minus one occurrence of the removed value
CountVal(h, v) == Cardinality({n \in LiveOf(h) : h[n].val = v})

C11_RemoveDestroysExactlyOneNode ==
    [][(fault' = "none" /\ last'.op \in {"remove", "remove_at"} /\ last'.ok) =>
         /\ last'.res \in LiveOf(nd)
         /\ LiveOf(nd') = LiveOf(nd) \ {last'.res}
         /\ \A n \in LiveOf(nd') : nd'[n].val = nd[n].val
         /\ SubOf(nd', root') = LiveOf(nd')
         /\ \A v \in 1..MaxVal :
                CountVal(nd', v) = CountVal(nd, v) - (IF v = nd[last'.res].val THEN 1 ELSE 0)]_vars

\* a node was removed through its position from a tree of four nodes, and a
\* node holding an equal value stays in the tree
C11_Witness ==
    /\ Returned
    /\ last.op = "remove_at" /\ last.ok
    /\ Cardinality(InTree) = 3
    /\ \E n \in InTree : nd[n].val = last.val
    /\ last.res \notin InTree

\* C12: for every valid position P: if successor(P) is valid then
\* predecessor(successor(P)) is the node P, and if predecessor(P) is valid then
\* successor(predecessor(P)) is the node P, also when values are duplicated
C12_PredecessorUndoesSuccessor ==
    [][(fault' = "none" /\ last'.ok) =>
         /\ last'.op = "successor" => predecessor(Cur, last'.res) = last.res
         /\ last'.op = "predecessor" => successor(Cur, last'.res) = last.res]_vars

\* successor() moved the iterator from a node to another node holding the
\* same value, in a tree of four nodes
C12_Witness ==
    /\ Returned
    /\ last.op = "successor" /\ last.ok
    /\ nd[last.res].val = last.val
    /\ Cardinality(InTree) = 4

\* C13: on a non-empty tree minimum() is the first and maximum() the last node
\* of the in-order sequence; successor() of the i-th node is the (i+1)-th and
\* is invalid exactly at the last one, predecessor() of the i-th node is the
\* (i-1)-th and is invalid exactly at the first one; the values along the
\* sequence are non-decreasing
IndexIn(seq, n) == CHOOSE i \in 1..Len(seq) : seq[i] = n

C13_TraversalVisitsInorder ==
    [][(fault' = "none" /\ root # NULL) =>
         LET seq == Inorder(nd, root)
         IN /\ NonDecreasing(Vals(nd, seq))
            /\ last'.op = "minimum" => last'.res = seq[1]
            /\ last'.op = "maximum" => last'.res = seq[Len(seq)]
            /\ last'.op = "successor" =>
                   last'.res = (IF IndexIn(seq, last.res) < Len(seq)
                                THEN seq[IndexIn(seq, last.res) + 1] ELSE NULL)
            /\ last'.op = "predecessor" =>
                   last'.res = (IF IndexIn(seq, last.res) > 1
                                THEN seq[IndexIn(seq, last.res) - 1] ELSE NULL)
            /\ last'.op \in {"successor", "predecessor"} =>
                   last'.ok = (last'.res # NULL)]_vars

\* successor() called on maximum() of a tree of four nodes gave an invalid
\* position
C13_Witness ==
    /\ Returned
    /\ last.op = "successor" /\ ~last.ok
    /\ Cardinality(InTree) = 4
    /\ last.val = nd[internal_maximum(Cur, root)].val
\* C17: no public call (insert, find, remove, minimum, maximum) dereferences
\* an absent node: every call returns; on the empty tree find, minimum and
\* maximum return an invalid position, and remove of an invalid position
\* returns false and leaves the tree alone
C17_PublicCallsNeverDereferenceNull ==
    [][(last'.op \in {"insert", "find", "remove", "minimum", "maximum"}) =>
         /\ fault' = "none"
         /\ (root = NULL /\ last'.op \in {"find", "minimum", "maximum"}) => ~last'.ok
         /\ (last'.op = "remove" /\ ~valid(Cur, last'.res)) =>
                (~last'.ok /\ nd' = nd /\ root' = root)]_vars
\* C14: inserting 4,2,6,1,3,5,7 into an empty AVL tree gives the perfectly
\* balanced tree of height 3 rooted at 4 with no rotation; removing 4 then
\* triggers no rotation; removing 6 and then 1 triggers `total` rotations in
\* total and leaves every node balanced
ScenarioStep(total) ==
    (script' \in 1..Len(Scenario)) =>
        /\ fault' = "none" /\ last'.ok
        /\ script' <= 8 => last'.rot = 0
        /\ script' = 7 =>
               /\ nd'[root'].val = 4
               /\ Cardinality(SubOf(nd', root')) = 7
               /\ TrueHeight(nd', root') = 3
        /\ script' = 10 =>
               /\ last.rot + last'.rot = total
               /\ AllBalanced(nd', root')

\* C14 as stated: exactly one rotation while 6 and 1 are removed
C14_ScenarioOneRotation == [][ScenarioStep(1)]_vars

\* C14 amended: none of the calls of the scenario rotates; the tree is
\* perfectly balanced after the inserts and balanced after the removes
C14_ScenarioNoRotation == [][ScenarioStep(0)]_vars

\* the ten calls of the scenario were made: 2, 3, 5 and 7 are left
C14_Witness ==
    /\ script = 10
    /\ Returned
    /\ StoredVals(nd, root) = {2, 3, 5, 7}
\* the node n and every node above it
RECURSIVE UpFrom(_, _)
UpFrom(h, n) == IF n = NULL THEN {} ELSE {n} \cup UpFrom(h, h[n].p)

NodeOps == {"set_left", "set_right", "reset_left", "reset_right", "release_left", "release_right"}

\* C15: height-augmented node: after one call of set_left, set_right,
\* reset_left, reset_right, release_left or release_right on a node (an absent
\* subtree may be passed to set_left/set_right), the stored height of the node
\* and of every node above it is 1 + the larger stored height of its children
\* (0 for an absent child)
C15_NodeCallUpdatesHeights ==
    [][(layer = "bsth" /\ last'.op \in NodeOps) =>
         \A a \in UpFrom(nd', last'.at) :
             nd'[a].height = 1 + Max2(Height0(Mach(nd', root'), nd'[a].left),
                                      Height0(Mach(nd', root'), nd'[a].right))]_vars

\* C16: release_left/release_right empties the slot, clears the parent
\* reference of the released node, returns it with its subtree as it was and
\* destroys nothing; the node's other child, value and parent reference stay.
\* set_left(n)/set_right(n) puts n in the slot with n's parent reference set
\* to the node and destroys exactly the subtree that was in the slot
Slot(h, t, side) == IF side = "left" THEN h[t].left ELSE h[t].right
Other(h, t, side) == IF side = "left" THEN h[t].right ELSE h[t].left

\* a node's links and value, the stored height aside
Links(h, x) == <<h[x].val, h[x].left, h[x].right, h[x].p, h[x].live>>

ReleaseEffect(t, side) ==
    /\ Slot(nd', t, side) = NULL
    /\ last'.res = Slot(nd, t, side)
    /\ Other(nd', t, side) = Other(nd, t, side)
    /\ nd'[t].val = nd[t].val /\ nd'[t].p = nd[t].p
    /\ LiveOf(nd') = LiveOf(nd)
    /\ last'.res # NULL =>
           /\ nd'[last'.res].p = NULL
           /\ SubOf(nd', last'.res) = SubOf(nd, last'.res)
           /\ \A x \in SubOf(nd, last'.res) \ {last'.res} : nd'[x] = nd[x]
           /\ nd'[last'.res] = [nd[last'.res] EXCEPT !.p = NULL]
    /\ \A x \in LiveOf(nd) \ {t, last'.res} : Links(nd', x) = Links(nd, x)

SetEffect(t, side) ==
    /\ Slot(nd', t, side) = last'.res
    /\ last'.res # NULL => nd'[last'.res].p = t
    /\ Other(nd', t, side) = Other(nd, t, side)
    /\ nd'[t].val = nd[t].val /\ nd'[t].p = nd[t].p
    /\ LiveOf(nd') = LiveOf(nd) \ SubOf(nd, Slot(nd, t, side))
    /\ \A x \in LiveOf(nd') \ {t, last'.res} : Links(nd', x) = Links(nd, x)
    /\ last'.res # NULL =>
           /\ Links(nd', last'.res) = Links([nd EXCEPT ![last'.res].p = t], last'.res)
           /\ \A x \in SubOf(nd, last'.res) \ {last'.res} : nd'[x] = nd[x]

C16_ReleaseAndSetFrame ==
    [][/\ last'.op = "release_left" => ReleaseEffect(last'.at, "left")
       /\ last'.op = "release_right" => ReleaseEffect(last'.at, "right")
       /\ last'.op = "set_left" => SetEffect(last'.at, "left")
       /\ last'.op = "set_right" => SetEffect(last'.at, "right")]_vars

\* release_left returned a node that has a child of its own and left the slot
\* empty
C16_Witness ==
    /\ last.op = "release_left"
    /\ last.res # NULL
    /\ nd[last.res].p = NULL
    /\ \E c \in Live : nd[c].p = last.res
    /\ nd[last.at].left = NULL
\* the elements a set holds, as contains() tells them
Elements(h, r, vals) == {x \in vals : contains(Mach(h, r), x)}

\* C18: tree_set built by add calls of pairwise distinct values only: the add
\* of one more new value returns true, size() grows by one and equals the
\* number of values added, and contains(x) is true for every value added
C18_DistinctAddsCount ==
    [][(last'.op = "add" /\ DistinctVals(nd, root)
            /\ num_eles = Cardinality(StoredVals(nd, root))
            /\ last'.val \notin StoredVals(nd, root)) =>
         /\ fault' = "none" /\ last'.ok
         /\ num_eles' = num_eles + 1
         /\ DistinctVals(nd', root')
         /\ StoredVals(nd', root') = StoredVals(nd, root) \cup {last'.val}
         /\ num_eles' = Cardinality(StoredVals(nd', root'))
         /\ Elements(nd', root', 1..AddVals) = StoredVals(nd', root')]_vars

\* all the values offered were added, one add each
C18_Witness ==
    /\ Returned
    /\ last.op = "add" /\ last.ok
    /\ num_eles = AddVals
    /\ DistinctVals(nd, root)
    /\ Elements(nd, root, 1..AddVals) = 1..AddVals

\* C19: tree_set reached by add calls: add of a value the set contains
\* returns false and leaves size() and the stored elements as they were
C19_AddContainedIsNoOp ==
    [][(last'.op = "add" /\ contains(Cur, last'.val)) =>
         /\ fault' = "none" /\ ~last'.ok
         /\ num_eles' = num_eles
         /\ nd' = nd /\ root' = root]_vars

\* C20: tree_set whose size() is the number of its elements, each stored
\* once: any_element on a non-empty set returns one of the elements, that
\* element alone is no longer contained and size() drops by one; on an empty
\* set it returns nullptr and size() stays 0
C20_AnyElementRemovesOne ==
    [][(last'.op = "any_element" /\ DistinctVals(nd, root)
            /\ num_eles = Cardinality(StoredVals(nd, root))) =>
         /\ fault' = "none"
         /\ root = NULL => (~last'.ok /\ num_eles' = 0 /\ root' = NULL)
         /\ root # NULL =>
                /\ last'.ok
                /\ last'.val \in Elements(nd, root, 1..SetVals)
                /\ Elements(nd', root', 1..SetVals) =
                       Elements(nd, root, 1..SetVals) \ {last'.val}
                /\ num_eles' = num_eles - 1
                /\ num_eles' = Cardinality(Elements(nd', root', 1..SetVals))]_vars
\* the elements of a sequence with their multiplicities
RECURSIVE BagOf(_)
BagOf(q) == IF q = <<>> THEN EmptyBag ELSE BagOf(Tail(q)) (+) SetToBag({Head(q)})

SeqMax(q) == CHOOSE x \in {q[i] : i \in 1..Len(q)} : \A j \in 1..Len(q) : q[j] <= x

\* every element is >= both of its children
MaxHeap(d) == \A i \in 2..Len(d) : d[heap_parent(i)] >= d[i]

\* C21: max_heap_lw: after every insert, extract_top on a non-empty heap and
\* update_element with a greater value every element is >= both of its
\* children and top() is the maximum; extract_top returns the maximum the
\* heap held and takes one element away, insert adds one element
C21_MaxHeapProperty ==
    [][/\ MaxHeap(data')
       /\ data' # <<>> => data'[1] = SeqMax(data')
       /\ last'.op = "extract_top" =>
              /\ last'.res = SeqMax(data)
              /\ Len(data') = Len(data) - 1
              /\ BagOf(data') (+) SetToBag({last'.res}) = BagOf(data)
       /\ last'.op = "heap_insert" =>
              /\ Len(data') = Len(data) + 1
              /\ BagOf(data') = BagOf(data) (+) SetToBag({last'.val})
       /\ last'.op = "update_element" => Len(data') = Len(data)]_vars

\* extract_top took the maximum off a heap of five elements; the new top is
\* smaller than it and the last element is smaller than the top and its parent
C21_Witness ==
    /\ last.op = "extract_top"
    /\ Len(data) = 4
    /\ data[1] > data[4]
    /\ data[2] > data[4]
    /\ data[1] < last.res
\* the order the specialization keeps: ascending, or descending
InOrder(l) ==
    \A i \in 1..(Len(l) - 1) : IF Ascending THEN l[i] <= l[i + 1] ELSE l[i] >= l[i + 1]

\* C22: priority_queue: after every push and pop the list is in ascending
\* order (descending for A = false); pop returns the smallest (largest)
\* element stored and takes exactly it away, push adds exactly its argument,
\* so popping until empty yields what was pushed in sorted order
C22_QueueStaysSorted ==
    [][/\ InOrder(lst')
       /\ last'.op = "pop" =>
              /\ \A i \in 1..Len(lst) :
                     IF Ascending THEN last'.res <= lst[i] ELSE last'.res >= lst[i]
              /\ BagOf(lst') (+) SetToBag({last'.res}) = BagOf(lst)
       /\ last'.op = "push" => BagOf(lst') = BagOf(lst) (+) SetToBag({last'.val})]_vars

\* a push put its argument strictly inside a queue of three elements
C22_Witness ==
    /\ last.op = "push"
    /\ Len(lst) = 4
    /\ \E i \in 2..3 : lst[i] = last.val /\ lst[i - 1] # last.val /\ lst[i + 1] # last.val

\* every stored height is the height of the structure below the node
HeightsExact(h, r) == \A n \in SubOf(h, r) : h[n].height = TrueHeight(h, n)

\* the nodes of the tree of m that are imbalanced and not on the path from
\* the node internal_remove returned (m.res) up to the root
OffPathImbalanced(m) ==
    {n \in SubOf(m.nd, m.root) : ~NodeBalanced(m.nd, n) /\ n \notin UpFrom(m.nd, m.res)}

\* C23: avl_tree::remove on a balanced tree with exact stored heights: after
\* internal_remove returned node N, every imbalanced node lies on the path
\* from N up to the root
C23_ImbalanceOnlyOnRemovePath ==
    [][(layer = "avl" /\ last'.op = "remove" /\ valid(Cur, last'.res)
            /\ AllBalanced(nd, root) /\ HeightsExact(nd, root)) =>
         OffPathImbalanced(internal_remove(Cur, last'.res)) = {}]_vars


\* the walk of find_remove_path_end from y: every node visited with stored
\* height > 1 has the child the walk steps to, holding that height less
\* one, and the walk ends on a node of stored height 1
RECURSIVE WalkSound(_, _)
WalkSound(m, y) ==
    IF m.nd[y].height > 1
    THEN IF has_left(m, y) /\ m.nd[m.nd[y].left].height = m.nd[y].height - 1
         THEN WalkSound(m, m.nd[y].left)
         ELSE /\ has_right(m, y)
              /\ m.nd[m.nd[y].right].height = m.nd[y].height - 1
              /\ WalkSound(m, m.nd[y].right)
    ELSE m.nd[y].height = 1

\* the walk from the node internal_remove returned, when it returned one
RemoveWalkSound(m) == (m.fault = "none" /\ m.res # NULL) => WalkSound(m, m.res)

\* C24: avl_tree::remove on a balanced tree with exact stored heights: the
\* walk of find_remove_path_end from the node internal_remove returned finds,
\* at every node of stored height > 1, a child of that height less one, and
\* ends on a node of height 1
C24_PathEndWalkFindsChild ==
    [][(layer = "avl" /\ last'.op = "remove" /\ valid(Cur, last'.res)
            /\ AllBalanced(nd, root) /\ HeightsExact(nd, root)) =>
         RemoveWalkSound(internal_remove(Cur, last'.res))]_vars


\* a client that fills an AVL tree with 1..12 in level order of
\*        5
\*    2       8
\*  1   3   7    10
\*       4 6    9  11
\*                   12
\* (no insert rotates) and removes values once the tree holds all but two
\* of them; it inserts the next value of the order while the tree holds
\* exactly the values before it
DeepOrder == <<5, 2, 8, 1, 3, 7, 10, 4, 6, 9, 11, 12>>

DeepMin == Len(DeepOrder) - 2

DeepInit ==
    /\ layer = "avl"
    /\ nd = [i \in 1..(Len(DeepOrder) * MaxDup) |-> FreeNode]
    /\ root = NULL
    /\ fault = "none"
    /\ last = NoCall
    /\ num_eles = 0
    /\ script = 0
    /\ data = <<>>
    /\ lst = <<>>

\* the first k values of DeepOrder
DeepPrefix(k) == {DeepOrder[i] : i \in 1..k}

DeepInsert ==
    /\ fault = "none"
    /\ Cardinality(InTree) < Len(DeepOrder)
    /\ StoredVals(nd, root) = DeepPrefix(Cardinality(InTree))
    /\ DoInsert(DeepOrder[Cardinality(InTree) + 1], FALSE)

DeepRemove(v) ==
    /\ Cardinality(InTree) > DeepMin
    /\ Remove(v)

DeepNext ==
    \/ DeepInsert
    \/ \E v \in 1..Len(DeepOrder) : DeepRemove(v)

DeepSpec == DeepInit /\ [][DeepNext]_vars

\* the imbalance_info avl_tree::insert acts on, m the state bst_insert left
InsertInfo(m) ==
    IF m.fault = "none" /\ valid(m, m.res) THEN check_balance_on_path(m, m.res) ELSE Balanced

\* the imbalance_info avl_tree::remove acts on, m the state internal_remove
\* left; Balanced when remove does not get as far as a check
RemoveInfo(m) ==
    IF m.fault = "none" /\ m.res # NULL /\ find_remove_path_end(m, m.res) # -1
    THEN check_balance_on_path(m, find_remove_path_end(m, m.res))
    ELSE Balanced

\* the rotation type of info lies on the side of the taller child of info.pos
\* (stored heights, as check_balance_on_path reads them)
OnTallerSide(m, info) ==
    /\ info.type \in {"LL", "LR"} =>
           Height0(m, m.nd[info.pos].left) > Height0(m, m.nd[info.pos].right)
    /\ info.type \in {"RL", "RR"} =>
           Height0(m, m.nd[info.pos].right) > Height0(m, m.nd[info.pos].left)

InsertOnTallerSide(m) == OnTallerSide(m, InsertInfo(m))
RemoveOnTallerSide(m) == OnTallerSide(m, RemoveInfo(m))

\* C25: avl_tree, tree balanced with exact stored heights before the call:
\* the rotation type insert or remove chooses at the imbalance point Y is LL
\* or LR only when Y's left child is the taller one, RL or RR only when the
\* right child is
C25_RotationOnTallerSide ==
    [][(layer = "avl" /\ AllBalanced(nd, root) /\ HeightsExact(nd, root)) =>
         /\ last'.op = "insert" => InsertOnTallerSide(bst_insert(Cur, last'.val, last'.dup))
         /\ (last'.op = "remove" /\ valid(Cur, last'.res)) =>
                RemoveOnTallerSide(internal_remove(Cur, last'.res))]_vars


\* the proper ancestors of end whose children's stored heights differ by
\* more than one
ImbalancedAbove(m, end) ==
    {y \in UpFrom(m.nd, m.nd[end].p) :
        AbsDiff(Height0(m, m.nd[y].left), Height0(m, m.nd[y].right)) > 1}

\* the child of y on the path from y down to its proper descendant end
StepToward(m, y, end) ==
    IF m.nd[y].left # NULL /\ m.nd[y].left \in UpFrom(m.nd, end)
    THEN m.nd[y].left ELSE m.nd[y].right

\* the types the first two steps of the path from y down to end stand for
\* (both types of the side when the path has one step only)
TypesOfPath(m, y, end) ==
    LET first == IF StepToward(m, y, end) = m.nd[y].left THEN "L" ELSE "R"
        second == IF StepToward(m, y, end) = end THEN {"L", "R"}
                  ELSE IF StepToward(m, StepToward(m, y, end), end)
                              = m.nd[StepToward(m, y, end)].left
                       THEN {"L"} ELSE {"R"}
    IN {first \o s : s \in second}

\* info is the report on the path that ends at end: balanced exactly when no
\* proper ancestor of end is imbalanced, else the imbalanced proper ancestor
\* closest to end with a type of the path from it to end
ReportsPath(m, end, info) ==
    IF ImbalancedAbove(m, end) = {}
    THEN info.balanced
    ELSE /\ ~info.balanced
         /\ info.pos \in ImbalancedAbove(m, end)
         /\ ImbalancedAbove(m, end) \subseteq UpFrom(m.nd, info.pos)
         /\ info.type \in TypesOfPath(m, info.pos, end)

\* the call check_balance_on_path(m.res) of avl_tree::insert
InsertReport(m) ==
    (m.fault = "none" /\ valid(m, m.res)) =>
        ReportsPath(m, m.res, check_balance_on_path(m, m.res))

\* the call check_balance_on_path(end) of avl_tree::remove
RemoveReportAt(m, end) ==
    end # -1 => ReportsPath(m, end, check_balance_on_path(m, end))

RemoveReport(m) ==
    (m.fault = "none" /\ m.res # NULL) =>
        RemoveReportAt(m, find_remove_path_end(m, m.res))

\* C26: every call of check_balance_on_path(end) that insert or remove makes
\* reports balanced iff no proper ancestor of end is imbalanced, and
\* otherwise the imbalanced proper ancestor closest to end with the type
\* given by the first two steps of the path from it down to end
C26_CheckBalanceReport ==
    [][layer = "avl" =>
         /\ last'.op = "insert" => InsertReport(bst_insert(Cur, last'.val, last'.dup))
         /\ (last'.op = "remove" /\ valid(Cur, last'.res)) =>
                RemoveReport(internal_remove(Cur, last'.res))]_vars

\* the heap h with the parent reference of n set to p (n may be absent)
WithParent(h, n, p) == IF n = NULL THEN h ELSE [h EXCEPT ![n].p = p]

\* the heap h with top in the slot of parent that held y (the root slot is
\* not part of the heap)
InSlotOf(h, parent, y, top) ==
    IF parent = NULL THEN h
    ELSE IF h[parent].left = y THEN [h EXCEPT ![parent].left = top]
    ELSE [h EXCEPT ![parent].right = top]

\* the textbook result of a single rotation at y: k, the child of y on the
\* given side, on top with y as its child on the other side and k's former
\* subtree of that other side in the slot of y that held k
ClassicSingle(h, y, side) ==
    LET k == Slot(h, y, side)
        b == Other(h, k, side)
        base == WithParent(InSlotOf(h, h[y].p, y, k), b, y)
    IN IF side = "left"
       THEN [base EXCEPT ![k].right = y, ![k].p = h[y].p, ![y].left = b, ![y].p = k]
       ELSE [base EXCEPT ![k].left = y, ![k].p = h[y].p, ![y].right = b, ![y].p = k]

\* the textbook result of a double rotation at y: k2, the inner grandchild of
\* y under its child k on the given side, on top with the lower of k, y as
\* left child and the higher as right child; k2's former left subtree becomes
\* the right subtree of its new left child, k2's former right subtree the
\* left subtree of its new right child
ClassicDouble(h, y, side) ==
    LET k == Slot(h, y, side)
        k2 == Other(h, k, side)
        lo == IF side = "left" THEN k ELSE y
        hi == IF side = "left" THEN y ELSE k
        b == h[k2].left
        c == h[k2].right
        base == WithParent(WithParent(InSlotOf(h, h[y].p, y, k2), b, lo), c, hi)
    IN [base EXCEPT ![k2].left = lo, ![k2].right = hi, ![k2].p = h[y].p,
                    ![lo].right = b, ![lo].p = k2,
                    ![hi].left = c, ![hi].p = k2]

\* the node a rotation of the given type at y brings on top
NewTop(h, y, type) ==
    CASE type = "LL" -> h[y].left
      [] type = "RR" -> h[y].right
      [] type = "LR" -> h[h[y].left].right
      [] type = "RL" -> h[h[y].right].left

Classic(h, y, type) ==
    CASE type = "LL" -> ClassicSingle(h, y, "left")
      [] type = "RR" -> ClassicSingle(h, y, "right")
      [] type = "LR" -> ClassicDouble(h, y, "left")
      [] type = "RL" -> ClassicDouble(h, y, "right")

\* the state after the call is the state m with the rotation info names
\* carried out the textbook way: the new top in the slot of info.pos, and
\* every node's value and links as in Classic (stored heights aside)
RotatedClassic(m, info) ==
    /\ ~info.balanced
    /\ root' = (IF m.nd[info.pos].p = NULL THEN NewTop(m.nd, info.pos, info.type) ELSE m.root)
    /\ \A n \in Ids : Links(nd', n) = Links(Classic(m.nd, info.pos, info.type), n)

InsertRotatedClassic(m) == RotatedClassic(m, InsertInfo(m))
RemoveRotatedClassic(m) == RotatedClassic(m, RemoveInfo(m))

\* C27: avl_tree: every insert or remove call that rotates and returns leaves
\* the tree as the textbook rotation of the reported type at the imbalance
\* point Y: the new top node (Y's child for LL/RR, grandchild for LR/RL) in
\* the slot Y occupied, the three (LL/RR: two) nodes and their subtrees
\* arranged in the classic shape, every other node's value and links
\* unchanged
C27_RotationHasClassicShape ==
    [][(layer = "avl" /\ fault' = "none" /\ last'.rot = 1) =>
         /\ last'.op = "insert" => InsertRotatedClassic(bst_insert(Cur, last'.val, last'.dup))
         /\ last'.op = "remove" => RemoveRotatedClassic(internal_remove(Cur, last'.res))]_vars

\* an insert rotated below the root: in a tree of five nodes or fewer the
\* imbalance point is the new node's grandparent, the new top ends at most
\* one level above the new node, and the new node has two nodes above it
C27_Witness ==
    /\ layer = "avl" /\ Returned
    /\ last.op = "insert" /\ last.rot = 1
    /\ Cardinality(InTree) <= 5
    /\ Cardinality(UpFrom(nd, last.res)) >= 3


\* the state after the call holds the nodes of m in the in-order sequence of m
SameSequence(m) ==
    /\ Inorder(nd', root') = Inorder(m.nd, m.root)
    /\ Live' = LiveOf(m.nd)

\* C28: avl_tree: the rotation of every insert or remove call that rotates and
\* returns leaves the in-order sequence of the nodes of the whole tree as
\* it was before the rotation and neither creates nor destroys a node
C28_RotationKeepsInorder ==
    [][(layer = "avl" /\ fault' = "none" /\ last'.rot = 1) =>
         /\ last'.op = "insert" => SameSequence(bst_insert(Cur, last'.val, last'.dup))
         /\ last'.op = "remove" => SameSequence(internal_remove(Cur, last'.res))]_vars

\* a remove rotated and returned, leaving five nodes or more
C28_Witness ==
    /\ layer = "avl" /\ Returned
    /\ last.op = "remove" /\ last.rot = 1
    /\ Cardinality(InTree) >= 5

\* the node the removal of node from the tree (h, r) is to return: the one
\* child, the node next in order when there are two, the parent of a leaf
\* (absent for a root leaf)
ToReturn(h, r, node) ==
    IF h[node].left # NULL /\ h[node].right # NULL
    THEN Inorder(h, r)[IndexIn(Inorder(h, r), node) + 1]
    ELSE IF h[node].left # NULL THEN h[node].left
    ELSE IF h[node].right # NULL THEN h[node].right
    ELSE h[node].p

\* m is the state internal_remove(node) left when called in the current
\* state: it returned the node ToReturn names, null exactly when the tree is
\* now empty, else a node of the tree; a child or successor returned is in
\* the slot node had
ReturnsDocumented(m, node) ==
    /\ m.fault = "none"
    /\ m.res = ToReturn(nd, root, node)
    /\ (m.res = NULL) <=> (m.root = NULL)
    /\ m.res # NULL => (m.nd[m.res].live /\ m.res \in SubOf(m.nd, m.root))
    /\ (nd[node].left # NULL \/ nd[node].right # NULL) => m.nd[m.res].p = nd[node].p

\* C29: internal_remove(node) returns the child that took node's place when
\* node had exactly one child, the in-order successor when it had two, node's
\* former parent when node was a non-root leaf and null when the tree became
\* empty; a non-null node returned is in the tree after the call
C29_InternalRemoveReturn ==
    [][(last'.op \in {"remove", "remove_at"} /\ valid(Cur, last'.res)) =>
         ReturnsDocumented(internal_remove(Cur, last'.res), last'.res)]_vars

\* the scenario has removed 4 (two children) and then 6, whose one child 7
\* took its place
C29_Witness ==
    /\ script = 9
    /\ Returned
    /\ StoredVals(nd, root) = {1, 2, 3, 5, 7}

\* the tree (h, with the root slot aside) after the removal of a node with
\* two children, s the minimum of its right subtree: s in the slot of node
\* with node's left subtree on its left; when s was not the right child of
\* node, the right subtree of s in the slot s had and the right child of
\* node on the right of s
ShapeTwoChildren(h, node, s) ==
    LET l == h[node].left
        r == h[node].right
        up == InSlotOf(h, h[node].p, node, s)
        placed == [WithParent(up, l, s) EXCEPT ![s].left = l, ![s].p = h[node].p,
                                               ![node] = FreeNode]
    IN IF s = r THEN placed
       ELSE [WithParent(WithParent(placed, h[s].right, h[s].p), r, s)
                EXCEPT ![h[s].p].left = h[s].right, ![s].right = r]

\* the child of a node that has one child at most (absent for a leaf)
OnlyChild(h, node) == IF h[node].left # NULL THEN h[node].left ELSE h[node].right

\* the tree after the removal of node: a leaf's slot absent, an only child
\* in the slot of node, else ShapeTwoChildren
ShapeRemoved(h, node) ==
    IF h[node].left # NULL /\ h[node].right # NULL
    THEN ShapeTwoChildren(h, node, Inorder(h, h[node].right)[1])
    ELSE [WithParent(InSlotOf(h, h[node].p, node, OnlyChild(h, node)),
                     OnlyChild(h, node), h[node].p)
             EXCEPT ![node] = FreeNode]

\* m is the state internal_remove(node) left when called in the current
\* state: values and links of every node as in ShapeRemoved, the root slot
\* holding what replaced node when node was the root
RemovedAsDocumented(m, node) ==
    /\ m.fault = "none"
    /\ m.root = (IF nd[node].p # NULL THEN root
                 ELSE IF nd[node].left # NULL /\ nd[node].right # NULL
                      THEN Inorder(nd, nd[node].right)[1]
                      ELSE OnlyChild(nd, node))
    /\ \A n \in Ids : Links(m.nd, n) = Links(ShapeRemoved(nd, node), n)

\* C30: BST remove of a node with two children puts the minimum S of its
\* right subtree in the node's slot, with the node's left subtree as S's left
\* child, S's former right subtree in S's old slot when S was not the direct
\* right child, and the rest of the node's right subtree as S's right child;
\* a node with one child is replaced in its slot by that child; a leaf's slot
\* becomes absent
C30_RemoveShape ==
    [][(last'.op \in {"remove", "remove_at"} /\ valid(Cur, last'.res)) =>
         RemovedAsDocumented(internal_remove(Cur, last'.res), last'.res)]_vars

\* the scenario has removed 4, a root with two children whose successor 5
\* was not its right child: 5 is the root over 2 and 6
C30_Witness ==
    /\ script = 8
    /\ Returned
    /\ nd[root].val = 5
    /\ nd[nd[root].left].val = 2
    /\ nd[nd[root].right].val = 6


\* z is a leaf of the tree after the call, in the slot the walk for value v
\* ends at: left of every node above it that holds v or more, right of the
\* others, in a slot of its parent that was absent
AttachedWhereWalkEnds(z, v) ==
    /\ nd'[z].p \in LiveOf(nd)
    /\ root' = root
    /\ \/ nd'[nd'[z].p].left = z /\ nd[nd'[z].p].left = NULL
       \/ nd'[nd'[z].p].right = z /\ nd[nd'[z].p].right = NULL
    /\ \A a \in UpFrom(nd', nd'[z].p) :
           (z \in SubOf(nd', nd'[a].left)) <=> (v <= nd[a].val)
    /\ \A a \in UpFrom(nd', nd'[z].p) :
           z \in SubOf(nd', nd'[a].left) \cup SubOf(nd', nd'[a].right)

\* every node that existed keeps its value, parent and children, the slot
\* that received z aside
ExistingUnchanged(z) ==
    \A n \in LiveOf(nd) :
        /\ nd'[n].val = nd[n].val /\ nd'[n].p = nd[n].p /\ nd'[n].live
        /\ nd'[n].left \in {nd[n].left, z}
        /\ nd'[n].right \in {nd[n].right, z}
        /\ (nd'[n].left = z \/ nd'[n].right = z) => n = nd'[z].p

\* C31: plain BST engine: insert(value, allow_duplication = true) returns a
\* valid position on a node that did not exist before, the one node created;
\* it holds the value and is a leaf; in a non-empty tree it sits in the absent
\* slot where the walk (left when value <= node value, right otherwise)
\* ends; in an empty tree it is the root; every node that existed keeps its
\* children, parent and value
C31_DupInsertAttachesLeaf ==
    [][(layer = "bst" /\ last'.op = "insert" /\ last'.dup) =>
         /\ fault' = "none" /\ last'.ok
         /\ last'.res \notin LiveOf(nd)
         /\ LiveOf(nd') = LiveOf(nd) \cup {last'.res}
         /\ nd'[last'.res].val = last'.val
         /\ nd'[last'.res].left = NULL /\ nd'[last'.res].right = NULL
         /\ SubOf(nd', root') = LiveOf(nd')
         /\ IF root = NULL
            THEN root' = last'.res /\ nd'[last'.res].p = NULL
            ELSE AttachedWhereWalkEnds(last'.res, last'.val)
         /\ ExistingUnchanged(last'.res)]_vars

\* a duplicate was inserted into a plain tree, which now has four nodes or
\* more, and went to the left of a node holding the equal value
C31_Witness ==
    /\ layer = "bst" /\ Returned
    /\ last.op = "insert" /\ last.dup /\ last.ok
    /\ Cardinality(InTree) >= 4
    /\ nd[last.res].p # NULL
    /\ nd[nd[last.res].p].val = last.val
    /\ nd[nd[last.res].p].left = last.res


\* the walk of insert for value v in the tree (h, r) ends at a node holding
\* v: a node y of the tree that holds v, has no left child, and lies on the
\* left of every node above it that holds v or more and on the right of the
\* others
WalkEndsAtEqual(h, r, v) ==
    \E y \in SubOf(h, r) :
        /\ h[y].val = v
        /\ h[y].left = NULL
        /\ \A a \in UpFrom(h, h[y].p) : (y \in SubOf(h, h[a].left)) <=> (v <= h[a].val)

\* C32: on every layer, insert(value, allow_duplication = false) whose walk
\* ends at a node holding the value creates no node, returns an invalid
\* position and leaves the tree unchanged, stored heights included; on the
\* AVL layer it rotates nothing
C32_NoDupInsertAtEqualIsNoOp ==
    [][(last'.op = "insert" /\ ~last'.dup /\ WalkEndsAtEqual(nd, root, last'.val)) =>
         /\ fault' = "none"
         /\ nd' = nd /\ root' = root
         /\ last'.res = NULL /\ ~last'.ok
         /\ last'.rot = 0]_vars

\* an insert with duplicates disallowed was refused on an AVL tree of three
\* nodes or more whose walk for the value ends at a node holding it
C32_Witness ==
    /\ layer = "avl" /\ Returned
    /\ last.op = "insert" /\ ~last.dup /\ ~last.ok
    /\ Cardinality(InTree) >= 3
    /\ WalkEndsAtEqual(nd, root, last.val)


\* the call of is_on_left_or_right(end) that check_balance_on_path(end)
\* makes, if it makes one, is on a proper ancestor of end: the child, on the
\* path, of the closest imbalanced proper ancestor of end is not end itself
CallOnProperAncestor(m, end) ==
    \A y \in ImbalancedAbove(m, end) :
        ImbalancedAbove(m, end) \subseteq UpFrom(m.nd, y) =>
            /\ StepToward(m, y, end) # end
            /\ StepToward(m, y, end) \in UpFrom(m.nd, m.nd[end].p)

InsertCallSound(m) ==
    (m.fault = "none" /\ valid(m, m.res)) => CallOnProperAncestor(m, m.res)

RemoveCallSoundAt(m, end) == end # -1 => CallOnProperAncestor(m, end)

RemoveCallSound(m) ==
    (m.fault = "none" /\ m.res # NULL) =>
        RemoveCallSoundAt(m, find_remove_path_end(m, m.res))

\* C33: avl_tree, tree balanced with exact stored heights before the call:
\* at every call of is_on_left_or_right(end) that check_balance_on_path makes
\* during insert or remove, end is a proper descendant of the node the call
\* is made on
C33_SideCallPrecondition ==
    [][(layer = "avl" /\ AllBalanced(nd, root) /\ HeightsExact(nd, root)) =>
         /\ last'.op = "insert" => InsertCallSound(bst_insert(Cur, last'.val, last'.dup))
         /\ (last'.op = "remove" /\ valid(Cur, last'.res)) =>
                RemoveCallSound(internal_remove(Cur, last'.res))]_vars


\* find(v) on the tree m: a valid position on a node of the tree holding v
\* when some node holds v, an invalid position otherwise
FindsStored(m, v) ==
    IF v \in StoredVals(m.nd, m.root)
    THEN /\ valid(m, find(m, v))
         /\ find(m, v) \in SubOf(m.nd, m.root)
         /\ m.nd[find(m, v)].val = v
    ELSE ~valid(m, find(m, v))

\* C34: AVL tree built by insert calls, duplicates allowed or not: after
\* every insert that returns, find(v) is a valid position holding v for every
\* value v held by some node, and an invalid position for every other value
C34_FindAfterDupInserts ==
    (layer = "avl" /\ Returned) => \A v \in 1..InsVals : FindsStored(Cur, v)

\* an insert rotated, and some node of the tree has a node holding an equal
\* value in its right subtree
C34_Witness ==
    /\ layer = "avl" /\ Returned
    /\ last.op = "insert" /\ last.rot = 1
    /\ \E a \in InTree : \E n \in SubOf(nd, nd[a].right) : nd[n].val = nd[a].val


\* C35: avl_tree::insert that returns a valid position, rotation or not: the
\* position designates a node that did not exist before, is in the tree
\* after the call and holds the inserted value; every node that existed
\* before is still in the tree, at the same address with the same value
C35_PositionsSurviveRotation ==
    [][(layer = "avl" /\ last'.op = "insert" /\ last'.res # NULL) =>
         /\ fault' = "none" /\ last'.ok
         /\ last'.res \notin LiveOf(nd)
         /\ nd'[last'.res].live
         /\ nd'[last'.res].val = last'.val
         /\ SubOf(nd', root') = LiveOf(nd) \cup {last'.res}
         /\ LiveOf(nd') = LiveOf(nd) \cup {last'.res}
         /\ \A n \in LiveOf(nd) : nd'[n].val = nd[n].val]_vars

\* an insert triggered a double rotation that made the new node the root
C35_Witness ==
    /\ layer = "avl" /\ Returned
    /\ last.op = "insert" /\ last.rot = 1 /\ last.ok
    /\ root = last.res
    /\ Cardinality(InTree) >= 3

====
